---------------------------- MODULE Spec2Model ----------------------------
(***************************************************************************)
(* A model of the MR-System ingestion pipeline: the idempotent, lineage    *)
(* tracked store operations of src/seeders/base_seeder.py and              *)
(* src/utils/lineage_tracker.py over the SQLite store of                   *)
(* src/db/connection.py, and the staged project-name matcher of            *)
(* src/utils/project_matcher.py.                                           *)
(*                                                                         *)
(* Text is modelled as a sequence of characters; a character is a one      *)
(* character string, except "endash" (U+2013) and "emdash" (U+2014).       *)
(* Confidences are hundredths: 100 is 1.0, 95 is 0.95.                     *)
(***************************************************************************)
EXTENDS Integers, Sequences, FiniteSets, TLC

VARIABLES
    store,      \* the committed database: entity tables, data_lineage, source_reports
    txn,        \* per session: its open transaction's working copy, or NoTxn
    pend,       \* per session: objects added to the session and not flushed yet
    broken,     \* per session: a flush failed and rollback() was not called yet
    last,       \* per session: the outcome of the last call made on it
    prev,       \* per session: the outcome of the call before the last
    calls,      \* per session: how many calls were made on it
    pc,         \* per worker: its position in _get_or_create_with_lineage / seed
    loc,        \* per worker: the locals of the call in progress
    projects,   \* the projects table, in row order: <<[id, name], ...>>
    matcher,    \* the ProjectMatcher object: [built, aliases, _cache, _name_to_id]
    snap,       \* what the projects table held when the matcher was constructed
    mop,        \* the call whose result mresult holds: "idle" when none
    minput,     \* the name last given to match / _normalize
    mresult,    \* what that call returned
    files,      \* per seeder: the records of the extracted file it reads
    run         \* the last seed() or validation call and what it returned

storeVars == <<store, txn, pend, broken, last, prev, calls, pc, loc>>
matchVars == <<projects, matcher, snap, mop, minput, mresult>>
runVars == <<files, run>>
vars == <<store, txn, pend, broken, last, prev, calls, pc, loc,
          projects, matcher, snap, mop, minput, mresult, files, run>>

---------------------------------------------------------------------------
(* Characters and strings.                                                 *)

UpperSeq == <<"A","B","C","D","E","F","G","H","I","J","K","L","M",
              "N","O","P","Q","R","S","T","U","V","W","X","Y","Z">>
LowerSeq == <<"a","b","c","d","e","f","g","h","i","j","k","l","m",
              "n","o","p","q","r","s","t","u","v","w","x","y","z">>
UpperChars == {UpperSeq[i] : i \in 1..26}
LowerChars == {LowerSeq[i] : i \in 1..26}
DigitChars == {"0","1","2","3","4","5","6","7","8","9"}
SpaceChars == {" "}
WordChars == UpperChars \cup LowerChars \cup DigitChars \cup {"_"}

LowerOf == [c \in UpperChars |-> LowerSeq[CHOOSE i \in 1..26 : UpperSeq[i] = c]]

\* str.lower() on one character
LowerChar(c) == IF c \in UpperChars THEN LowerOf[c] ELSE c

\* str.lower()
Lower(s) == [i \in 1..Len(s) |-> LowerChar(s[i])]

RECURSIVE LStrip(_)
LStrip(s) ==
    IF s # <<>> /\ Head(s) \in SpaceChars THEN LStrip(Tail(s)) ELSE s

RECURSIVE RStrip(_)
RStrip(s) ==
    IF s # <<>> /\ s[Len(s)] \in SpaceChars
    THEN RStrip(SubSeq(s, 1, Len(s) - 1))
    ELSE s

\* str.strip()
Strip(s) == RStrip(LStrip(s))

\* a in b, for strings
Contains(b, a) ==
    \E i \in 1..(Len(b) - Len(a) + 1) : SubSeq(b, i, i + Len(a) - 1) = a

---------------------------------------------------------------------------
(* Regular expressions as re evaluates them: a backtracking match whose    *)
(* alternatives are tried in order and whose repetitions are greedy.       *)
(* Ends(r, s, i, ic) lists, in the order re tries them, the positions      *)
(* where a match of r that starts at position i of s can end; re takes the *)
(* first. ic is re.IGNORECASE.                                             *)

Bol == [t |-> "bol"]
Eol == [t |-> "eol"]
In(cs) == [t |-> "set", cs |-> cs, neg |-> FALSE]
NotIn(cs) == [t |-> "set", cs |-> cs, neg |-> TRUE]
Lit(w) == [t |-> "lit", w |-> w]
Star(c) == [t |-> "star", c |-> c]
Cat(a, b) == [t |-> "cat", a |-> a, b |-> b]
Alt(a, b) == [t |-> "alt", a |-> a, b |-> b]
Opt(a) == Alt(a, [t |-> "eps"])
Plus(c) == Cat(c, Star(c))

RECURSIVE CatAll(_)
CatAll(rs) ==
    IF Len(rs) = 1 THEN rs[1] ELSE Cat(Head(rs), CatAll(Tail(rs)))

RECURSIVE AltAll(_)
AltAll(rs) ==
    IF Len(rs) = 1 THEN rs[1] ELSE Alt(Head(rs), AltAll(Tail(rs)))

\* whether character ch is in class c; under IGNORECASE a character is in
\* the class when it or its other case is
InClass(ch, c, ic) ==
    LET hit == \/ ch \in c.cs
               \/ ic /\ \/ LowerChar(ch) \in c.cs
                        \/ \E k \in 1..26 : LowerSeq[k] = ch /\ UpperSeq[k] \in c.cs
    IN  IF c.neg THEN ~hit ELSE hit

RECURSIVE RunLen(_, _, _, _)
RunLen(c, s, i, ic) ==
    IF i <= Len(s) /\ InClass(s[i], c, ic)
    THEN 1 + RunLen(c, s, i + 1, ic)
    ELSE 0

RECURSIVE Ends(_, _, _, _)
RECURSIVE EndsAfter(_, _, _, _)
Ends(r, s, i, ic) ==
    CASE r.t = "eps" -> <<i>>
      [] r.t = "bol" -> IF i = 1 THEN <<i>> ELSE <<>>
      [] r.t = "eol" -> IF i = Len(s) + 1 THEN <<i>> ELSE <<>>
      [] r.t = "bolm" -> IF i = 1 \/ s[i - 1] = "\n" THEN <<i>> ELSE <<>>
      [] r.t = "eolm" -> IF i = Len(s) + 1 \/ s[i] = "\n" THEN <<i>> ELSE <<>>
      [] r.t = "wb" ->
            IF (i > 1 /\ s[i - 1] \in WordChars) # (i <= Len(s) /\ s[i] \in WordChars)
            THEN <<i>> ELSE <<>>
      [] r.t = "set" ->
            IF i <= Len(s) /\ InClass(s[i], r, ic) THEN <<i + 1>> ELSE <<>>
      [] r.t = "lit" ->
            IF /\ i + Len(r.w) - 1 <= Len(s)
               /\ LET got == SubSeq(s, i, i + Len(r.w) - 1)
                  IN  IF ic THEN Lower(got) = Lower(r.w) ELSE got = r.w
            THEN <<i + Len(r.w)>>
            ELSE <<>>
      [] r.t = "star" ->
            LET k == RunLen(r.c, s, i, ic)
            IN  [j \in 1..(k + 1) |-> i + k + 1 - j]
      [] r.t = "cat" -> EndsAfter(Ends(r.a, s, i, ic), r.b, s, ic)
      [] r.t = "alt" -> Ends(r.a, s, i, ic) \o Ends(r.b, s, i, ic)

EndsAfter(es, b, s, ic) ==
    IF es = <<>>
    THEN <<>>
    ELSE Ends(b, s, Head(es), ic) \o EndsAfter(Tail(es), b, s, ic)

\* pattern.sub(repl, s): every leftmost non-overlapping match replaced
RECURSIVE SubFrom(_, _, _, _, _)
SubFrom(r, repl, s, i, ic) ==
    IF i > Len(s) + 1
    THEN <<>>
    ELSE LET es == Ends(r, s, i, ic)
         IN  IF es # <<>> /\ es[1] > i
             THEN repl \o SubFrom(r, repl, s, es[1], ic)
             ELSE (IF es # <<>> THEN repl ELSE <<>>)
                  \o (IF i <= Len(s)
                      THEN <<s[i]>> \o SubFrom(r, repl, s, i + 1, ic)
                      ELSE <<>>)

Sub(r, repl, s, ic) == SubFrom(r, repl, s, 1, ic)

Ws == Star(In(SpaceChars))
Ws1 == Plus(In(SpaceChars))
Digits1 == Plus(In(DigitChars))
Dash == In({"-", "endash", "emdash"})

---------------------------------------------------------------------------
(* ProjectMatcher._normalize                                               *)

\* ^(?:VHOP\s*\d*|VHGG|VHSC)\s*[-–—]\s*   (IGNORECASE)
PREFIX_PATTERN ==
    CatAll(<<Bol,
             AltAll(<<CatAll(<<Lit(<<"V","H","O","P">>), Ws, Star(In(DigitChars))>>),
                      Lit(<<"V","H","G","G">>),
                      Lit(<<"V","H","S","C">>)>>),
             Ws, Dash, Ws>>)

\* ^[A-Z]\.\s+
LETTER_PREFIX_PATTERN ==
    CatAll(<<Bol, In(UpperChars), Lit(<<".">>), Ws1>>)

\* \(?P\d+\)?
PhaseMark == CatAll(<<Opt(Lit(<<"(">>)), Lit(<<"P">>), Digits1, Opt(Lit(<<")">>))>>)

\* the six alternatives of PHASE_PATTERN, in order   (IGNORECASE)
PHASE_PATTERN ==
    AltAll(<<
      CatAll(<<Ws, Dash, Ws, PhaseMark, Ws1,
               Alt(Lit(<<"B","l","o","c","k">>), Lit(<<"T","o","w","e","r">>)),
               Ws1, In(WordChars), Star(In(WordChars \cup {"&"}))>>),
      CatAll(<<Ws, Dash, Ws, PhaseMark, Ws1, Plus(NotIn(SpaceChars))>>),
      CatAll(<<Ws, Dash, Ws, PhaseMark>>),
      CatAll(<<Ws, Lit(<<"(","P">>), Digits1, Lit(<<")">>), Ws>>),
      CatAll(<<Ws, Lit(<<"P","h","a","s","e">>), Ws1, Digits1>>),
      CatAll(<<Ws, Dash, Ws, Lit(<<"B","l","o","c","k">>), Ws1, Plus(In(WordChars))>>)
    >>)

Normalize(name) ==
    LET \* name.replace("–", "-").replace("—", "-")
        n1 == [i \in 1..Len(name) |->
                  IF name[i] \in {"endash", "emdash"} THEN "-" ELSE name[i]]
        n2 == Sub(LETTER_PREFIX_PATTERN, <<>>, n1, FALSE)
        n3 == Sub(PREFIX_PATTERN, <<>>, n2, TRUE)
        n4 == Sub(PHASE_PATTERN, <<>>, n3, TRUE)
        \* \([^)]*\)
        n5 == Sub(CatAll(<<Lit(<<"(">>), Star(NotIn({")"})), Lit(<<")">>)>>),
                  <<>>, n4, FALSE)
        \* \s*[-–—]\s*$
        n6 == Sub(CatAll(<<Ws, Dash, Ws, Eol>>), <<>>, n5, FALSE)
        \* re.sub(r"\s+", " ", name).strip().lower()
        n7 == Lower(Strip(Sub(Ws1, <<" ">>, n6, FALSE)))
    \* [^\w\s-]
    IN  Sub(NotIn(WordChars \cup SpaceChars \cup {"-"}), <<>>, n7, FALSE)

---------------------------------------------------------------------------
(* ProjectMatcher: the junk filter, the index and the four tiers.          *)

\* Optional[int] with no value; project ids start at 1
None == 0

_JUNK_NAMES ==
    {<<"o","n","-","s","a","l","e","s"," ","p","r","o","j","e","c","t","s">>,
     <<"o","n"," ","s","a","l","e","s"," ","p","r","o","j","e","c","t","s">>,
     <<"n","e","w"," ","l","a","u","n","c","h"," ","p","r","o","j","e","c","t","s">>,
     <<"f","u","t","u","r","e"," ","l","a","u","n","c","h"," ","p","r","o","j","e","c","t","s">>,
     <<"c","o","m","p","l","e","t","e","d"," ","p","r","o","j","e","c","t","s">>,
     <<"z","o","n","e"," ","i">>,
     <<"z","o","n","e"," ","i","i">>,
     <<"z","o","n","e"," ","i","i","i">>,
     <<"z","o","n","e"," ","i","v">>,
     <<"i","."," ","z","o","n","e"," ","i">>,
     <<"i","i","."," ","z","o","n","e"," ","i","i">>,
     <<"i","i","i","."," ","z","o","n","e"," ","i","i","i">>,
     <<"i","i","."," ","o","n","-","s","a","l","e","s"," ","p","r","o","j","e","c","t","s">>,
     <<"i","i","i","."," ","z","o","n","e"," ","i">>,
     <<"r","e","m","a","r","k","a","b","l","e">>,
     <<"r","e","m","a","r","a","b","l","e"," ","p","r","o","j","e","c","t","s">>,
     <<"a","n","a","l","y","z","e","d"," ","p","r","o","j","e","c","t","s">>,
     <<"p","r","o","j","e","c","t"," ","n","a","m","e">>,
     <<"u","n","i","t"," ","t","y","p","e">>,
     <<"l","o","c","a","t","i","o","n">>,
     <<"d","e","v","e","l","o","p","e","r">>,
     <<"g","r","a","d","e">>,
     <<"p","r","i","c","e">>,
     <<"s","t","a","t","u","s">>,
     <<"b","l","o","c","k">>,
     <<"t","y","p","e">>,
     <<"a","r","e","a">>,
     <<"i","t","e","m","s">>,
     <<"l","e","v","e","l">>,
     <<"d","e","s","c","r","i","p","t","i","o","n">>,
     <<"d","e","v","e","l","o","p","m","e","n","t">>,
     <<"f","a","c","i","l","i","t","i","e","s">>,
     <<"o","p","e","r","a","t","i","o","n">>,
     <<"t","o","t","a","l"," ","u","n","i","t","s">>,
     <<"s","a","l","e","s"," ","p","o","i","n","t">>,
     <<"s","a","l","e","s"," ","s","t","a","t","u","s">>,
     <<"a","p","a","r","t","m","e","n","t">>,
     <<"u","n","i","t"," ","f","i","n","i","s","h","i","n","g">>,
     <<"u","n","i","t"," ","l","a","y","o","u","t">>,
     <<"u","n","i","t"," ","r","a","t","i","o">>,
     <<"m","e","r","g","i","n","g">>,
     <<"h","o"," ","c","h","i"," ","m","i","n","h"," ","c","i","t","y">>,
     <<"h","a","n","o","i">>,
     <<"b","i","n","h"," ","d","u","o","n","g">>,
     <<"h","c","m","c">>,
     <<"h","a"," ","n","o","i">>,
     <<"d","a"," ","n","a","n","g">>,
     <<"h","a","i"," ","p","h","o","n","g">>,
     <<"h","a"," ","l","o","n","g">>,
     <<"d","o","n","g"," ","a","n","h">>,
     <<"t","a","n"," ","u","y","e","n">>,
     <<"p","e","n","t","h","o","u","s","e">>,
     <<"d","u","p","l","e","x">>,
     <<"s","h","o","p","h","o","u","s","e">>,
     <<"l","a","n","d","e","d"," ","h","o","u","s","e">>,
     <<"b","l","o","c","k"," ","b","2">>,
     <<"m","e","r","g","i","n","g"," ","i","n","f","o","r","m","a","t","i","o","n">>,
     <<"m","a","r","k","e","t"," ","s","i","t","u","a","t","i","o","n">>,
     <<"n","/","a">>,
     <<"m","a","s","t","e","r"," ","p","l","a","n">>,
     <<"m","a","s","t","e","r"," ","p","l","a","n"," ","&"," ","c","i","r","c","u","l","a","t","i","o","n">>,
     <<"t","y","p","i","c","a","l"," ","f","l","o","o","r">>,
     <<"t","y","p","i","c","a","l"," ","f","l","o","o","r"," ","p","l","a","n">>,
     <<"t","y","p","i","c","a","l"," ","u","n","i","t"," ","l","a","y","o","u","t">>,
     <<"p","r","o","j","e","c","t"," ","m","a","p">>,
     <<"p","r","o","j","e","c","t"," ","e","v","a","l","u","a","t","i","o","n">>,
     <<"p","a","y","m","e","n","t"," ","s","c","h","e","d","u","l","e">>,
     <<"p","u","b","l","i","c"," ","f","a","c","i","l","i","t","y">>,
     <<"k","e","y"," ","c","h","a","r","a","c","t","e","r","i","s","t","i","c","s">>,
     <<"c","o","-","o","p","e","r","a","t","i","o","n"," ","s","t","r","a","t","e","g","y">>,
     <<"f","o","r"," ","c","u","s","t","o","m","e","r">>,
     <<"h","i","g","h","l","i","g","h","t","e","d"," ","f","e","a","t","u","r","e","s">>,
     <<"o","p","e","n","-","s","p","a","c","e"," ","c","o","n","c","e","p","t"," ","w","i","t","h"," ","d","u","a","l"," ","b","a","l","c","o","n","y">>,
     <<"s","e","c","t","i","o","n"," ","&"," ","p","r","o","d","u","c","t"," ","d","i","s","t","r","i","b","u","t","i","o","n">>,
     <<"s","e","c","t","i","o","n"," ","&"," ","p","r","o","d","u","c","t"," ","t","y","p","e"," ","d","i","s","t","r","i","b","u","t","i","o","n">>,
     <<"h","-","i">>,
     <<"h","-","i","i">>,
     <<"m","-","i">>,
     <<"m","-","i","i">>,
     <<"m","-","i","i","i">>,
     <<"a","-","i">>,
     <<"a","-","i","i">>,
     <<"s","l">>,
     <<"l">>,
     <<"i"," ","&"," ","i","i">>,
     <<"h","a","w","a","i","i">>,
     <<"r","r","2",".","5">>,
     <<"v","h","o","p","1">>,
     <<"s","y","m","l","i","f","e">>,
     <<"d","o","n","g"," ","n","a","i"," ","r","i","v","e","r">>,
     <<"s","a","i","g","o","n"," ","r","i","v","e","r">>,
     <<"c","o","m","p","l","e","x"," ","d","e","v","e","l","o","p","m","e","n","t"," ","t","i","m","e","l","i","n","e"," ","(","2","0","1","8","-","2","0","2","4",")">>,
     <<"l","i","d","e","c","o">>}

\* the twelve patterns, in order; each is compiled with re.IGNORECASE and
\* applied with pattern.match, so each is tried at the start of the name
_JUNK_PATTERNS ==
  LET Digit4 == CatAll(<<In(DigitChars), In(DigitChars), In(DigitChars), In(DigitChars)>>)
  IN
    <<CatAll(<<Bol, Plus(In({"I","V","X"})), Lit(<<".">>), In(SpaceChars)>>),
      CatAll(<<Bol, Digits1, Lit(<<".">>), Digits1, In(SpaceChars)>>),
      CatAll(<<Bol, Lit(<<"A","N","A","L","Y","Z","E","D">>), Ws1, Lit(<<"P","R","O","J","E","C","T","S">>), Ws, Lit(<<"(">>)>>),
      CatAll(<<Bol, Lit(<<"C">>), Ws1, Lit(<<"O">>), Ws1, Lit(<<"N">>), Ws1,
               Lit(<<"F">>), Ws1, Lit(<<"I">>)>>),
      CatAll(<<Lit(<<"T","I","M","E","L","I","N","E">>), Ws, Lit(<<"(">>), Digit4>>),
      CatAll(<<Bol, Lit(<<"O","V","E","R","A","L","L">>), Ws1, Lit(<<"I","N">>), Ws1, Digit4>>),
      CatAll(<<Bol, Lit(<<"H","I","G","H","L","I","G","H","T","E","D">>), Ws1, Lit(<<"F","E","A","T","U","R","E","S">>), Ws1, Lit(<<"I","N">>)>>),
      CatAll(<<Bol, Alt(Lit(<<"L","O","W">>), Lit(<<"H","I","G","H">>)), Lit(<<"-","R","I","S","E">>), Ws, Lit(<<"(">>)>>),
      CatAll(<<Bol, Lit(<<"B","L","O","C","K">>), Ws1, In(UpperChars), In(DigitChars)>>),
      CatAll(<<Bol, Lit(<<"T","O","W","E","R">>), Ws1, Plus(In(WordChars)), Eol>>),
      CatAll(<<Bol, Lit(<<"W","O","N","D","E","R","F","U","L">>), Ws1, Lit(<<"P","A","R","K">>), Eol>>),
      CatAll(<<Lit(<<"D","E","V","E","L","O","P","M","E","N","T">>), Ws1, Lit(<<"T","I","M","E","L","I","N","E">>)>>)>>

\* is_junk_name without its loop over _JUNK_PATTERNS
is_junk_name_no_patterns(name) ==
    LET cleaned == Strip(name)
    IN  Len(cleaned) < 3 \/ Lower(cleaned) \in _JUNK_NAMES

is_junk_name(name) ==
    LET cleaned == Strip(name)
    IN  \/ Len(cleaned) < 3
        \/ Lower(cleaned) \in _JUNK_NAMES
        \/ \E k \in 1..Len(_JUNK_PATTERNS) : Ends(_JUNK_PATTERNS[k], cleaned, 1, TRUE) # <<>>

\* the loop of _load_projects over the rows ps.
\* self._cache[key] = (p.id, p.name): a dict keeps the place of a key that is
\* assigned again and takes the new value
RECURSIVE LoadCache(_, _)
LoadCache(ps, cache) ==
    IF ps = <<>>
    THEN cache
    ELSE LET key == Normalize(Head(ps).name)
             entry == [key |-> key, id |-> Head(ps).id, name |-> Head(ps).name]
         IN  LoadCache(Tail(ps),
                       IF \E k \in 1..Len(cache) : cache[k].key = key
                       THEN [k \in 1..Len(cache) |->
                               IF cache[k].key = key THEN entry ELSE cache[k]]
                       ELSE Append(cache, entry))

\* __init__ and _load_projects: ps is what session.query(Project).all() returns
_load_projects(ps, aliases) ==
    [built |-> TRUE,
     aliases |-> aliases,
     _cache |-> LoadCache(ps, <<>>),
     \* self._name_to_id[p.name.lower()] = p.id: the last project of a name wins
     _name_to_id |->
        [n \in {Lower(ps[k].name) : k \in 1..Len(ps)} |->
            LET ks == {k \in 1..Len(ps) : Lower(ps[k].name) = n}
            IN  ps[CHOOSE k \in ks : \A j \in ks : j <= k].id]]

Hit(id, conf) == [id |-> id, conf |-> conf]
Miss == [id |-> None, conf |-> 0]

\* a tier's result when it is one, and otherwise what follows the tier
OrElse(result, rest) == IF result.id # None THEN result ELSE rest

\* Tier 1: the first cache entry whose db_name equals the input, case-insensitively
Tier1(m, lower) ==
    LET ks == {k \in 1..Len(m._cache) : Lower(m._cache[k].name) = lower}
    IN  IF ks = {}
        THEN Miss
        ELSE Hit(m._cache[CHOOSE k \in ks : \A j \in ks : k <= j].id, 100)

\* the alias test with `in` written for `==`
AliasKeyContained(candidate, alias_key) ==
    \/ Contains(Lower(candidate), Lower(alias_key))
    \/ Normalize(alias_key) = Normalize(candidate)

AliasKeyMatches(candidate, alias_key) ==
    \/ Lower(candidate) = Lower(alias_key)
    \/ Normalize(alias_key) = Normalize(candidate)

\* the inner loop of _try_alias over self._aliases.items(), from alias k on
RECURSIVE AliasScan(_, _, _)
AliasScan(m, candidate, k) ==
    IF k > Len(m.aliases)
    THEN Miss
    ELSE LET canonical == Lower(m.aliases[k].target)
         IN  IF /\ AliasKeyMatches(candidate, m.aliases[k].key)
                /\ canonical \in DOMAIN m._name_to_id
             THEN Hit(m._name_to_id[canonical], 95)
             ELSE AliasScan(m, candidate, k + 1)

_try_alias(m, extracted_name) ==
    IF m.aliases = <<>>
    THEN Miss
    ELSE LET first == AliasScan(m, Strip(extracted_name), 1)
         IN  IF first.id # None
             THEN first
             ELSE AliasScan(m, Normalize(extracted_name), 1)

\* Tier 3: norm_input in self._cache
Tier3(m, extracted_name) ==
    LET norm_input == Normalize(extracted_name)
        ks == {k \in 1..Len(m._cache) : m._cache[k].key = norm_input}
    IN  IF ks = {} THEN Miss ELSE Hit(m._cache[CHOOSE k \in ks : TRUE].id, 90)

Min(a, b) == IF a <= b THEN a ELSE b
Max(a, b) == IF a >= b THEN a ELSE b

RECURSIVE Gcd(_, _)
Gcd(a, b) == IF b = 0 THEN a ELSE Gcd(b, a % b)

\* the confidence without its base of 0.5
ConfidenceNoBase(match_len, max_len) == (30 * match_len) \div max_len

\* the confidence falling with the ratio: 0.8 - 0.3 * ratio
ConfidenceInverted(match_len, max_len) == 80 - ((30 * match_len) \div max_len)

\* round(0.5 + 0.3 * (match_len / max_len), 2), in hundredths.
\* HalfRoundsUp lists the ratios match_len / max_len, in lowest terms, for
\* which 0.5 + 0.3 * ratio lies half way between two hundredths and the double
\* that Python computes is rounded up by round(.., 2); the other half-way
\* ratios round down.  It lists every such ratio of lengths up to 20.
Confidence(match_len, max_len) ==
    LET HalfRoundsUp ==
            {<<1, 12>>, <<7, 12>>, <<1, 20>>, <<3, 20>>, <<9, 20>>, <<11, 20>>,
             <<13, 20>>, <<17, 20>>}
        num == 30 * match_len
        q == num \div max_len
        r2 == 2 * (num % max_len)
        g == Gcd(match_len, max_len)
    IN  IF r2 < max_len THEN 50 + q
        ELSE IF r2 > max_len THEN 50 + q + 1
        ELSE IF <<match_len \div g, max_len \div g>> \in HalfRoundsUp
             THEN 50 + q + 1
             ELSE 50 + q

\* Tier 4: the loop over self._cache.items(), from entry k on
RECURSIVE Tier4(_, _, _, _, _)
Tier4(m, lower, k, best_match, best_len) ==
    IF k > Len(m._cache)
    THEN best_match
    ELSE LET db_lower == Lower(m._cache[k].name)
             match_len == Min(Len(db_lower), Len(lower))
         IN  IF /\ Contains(lower, db_lower) \/ Contains(db_lower, lower)
                /\ match_len > best_len
             THEN Tier4(m, lower, k + 1,
                        Hit(m._cache[k].id,
                            Confidence(match_len, Max(Len(db_lower), Len(lower)))),
                        match_len)
             ELSE Tier4(m, lower, k + 1, best_match, best_len)

\* match with the normalized tier tried before the alias tier
MatchNormalizedFirst(m, extracted_name) ==
    IF extracted_name = <<>> THEN Miss
    ELSE IF is_junk_name(extracted_name) THEN Miss
    ELSE OrElse(Tier1(m, Lower(Strip(extracted_name))),
         OrElse(Tier3(m, extracted_name),
         OrElse(_try_alias(m, extracted_name),
                Tier4(m, Lower(Strip(extracted_name)), 1, Miss, 0))))

\* ProjectMatcher.match
Match(m, extracted_name) ==
    IF extracted_name = <<>> THEN Miss
    ELSE IF is_junk_name(extracted_name) THEN Miss
    ELSE OrElse(Tier1(m, Lower(Strip(extracted_name))),
         OrElse(_try_alias(m, extracted_name),
         OrElse(Tier3(m, extracted_name),
                Tier4(m, Lower(Strip(extracted_name)), 1, Miss, 0))))

---------------------------------------------------------------------------
(* Bounded inputs: names are built by joining at most MaxTokens tokens.    *)

MaxTokens == 2
MaxProjects == 2

RECURSIVE Joins(_, _)
Joins(tokens, n) ==
    IF n = 0
    THEN {<<>>}
    ELSE LET shorter == Joins(tokens, n - 1)
         IN  shorter \cup {s \o t : s \in shorter, t \in tokens}

\* names a projects.json may hold
CanonNames == {<<"A","b","c">>, <<"A","b","c"," ","-">>, <<"A","b","c","d","e">>, <<"X","y","z">>}

\* the extracted names given to match, joined from these pieces
MatchInputs ==
    Joins({<<"A","b","c">>, <<" ","A","B","C"," ">>, <<"A","b","c"," ","-">>, <<"A","b","c"," ","d","e">>, <<"A","r","e","a">>, <<"X","."," ","A","b","c">>, <<"d">>, <<" ">>},
          MaxTokens)

\* alias tables a project_aliases.json may hold, in the order of their keys
AliasTables ==
    {<<>>,
     <<[key |-> <<"A","b","c"," ","d","e">>, target |-> <<"X","Y","Z">>]>>,
     <<[key |-> <<"a","b","c"," ","-">>, target |-> <<"N","o","p","e">>], [key |-> <<"A","B","C"," ","-">>, target |-> <<"X","y","z">>]>>}

MaxNormTokens == 3

\* the names given to _normalize, joined from these pieces
NormInputs ==
    Joins({<<"a">>, <<"A">>, <<" ">>, <<"-">>, <<"endash">>, <<"(">>, <<")">>, <<".">>, <<"P","1">>, <<"B","l","o","c","k">>,
           <<"P","h","a","s","e">>, <<"V","H","G","G">>},
          MaxNormTokens)

---------------------------------------------------------------------------
(* The store: a SQLite database reached through SQLAlchemy sessions.       *)
(* The entity tables modelled are projects and its children project_blocks *)
(* and unit_types, with data_lineage and source_reports. An entity row is [id, key, val]: *)
(* key holds the natural-key fields a call passes as keyword arguments and *)
(* val the fields it passes as defaults, which at every call site are      *)
(* disjoint from the key fields.                                           *)

MaxRows == 2        \* rows per entity table
MaxReports == 2     \* rows of source_reports
MaxLineage == 2     \* rows of data_lineage
MaxCalls == 4       \* calls made on one session

Workers == {1, 2}
ModelClasses == {"projects", "project_blocks"}
Floors == {10, 20}
Filenames == {"r1.pdf"}
Pages == {None, 3}
Confidences == {80, 95}

\* the natural keys a call can pass for a model class
NaturalKeys(model_class) ==
    IF model_class = "projects"
    THEN {<<n>> : n \in {"Masteri", "Lumiere"}}
    ELSE {<<p, b>> : p \in 1..MaxRows, b \in {"A"}}

EmptyDb ==
    [projects |-> <<>>, project_blocks |-> <<>>, unit_types |-> <<>>,
     data_lineage |-> <<>>, source_reports |-> <<>>, supply_records |-> <<>>]

NoTxn == [open |-> FALSE, db |-> EmptyDb]

\* what a session reads: its own transaction when it has one, and the
\* committed database otherwise (a SELECT opens no transaction)
View(w) == IF txn[w].open THEN txn[w].db ELSE store

\* the rowid SQLite gives a row inserted into a table with no AUTOINCREMENT
NextId(rows) == IF rows = <<>> THEN 1 ELSE rows[Len(rows)].id + 1

HasId(rows, id) == \E k \in 1..Len(rows) : rows[k].id = id

\* query(model_class).filter_by(**kwargs)
filter_by(rows, key) == SelectSeq(rows, LAMBDA r : r.key = key)

\* .first(): the id of the first row, None when there is none
first(rows) == IF rows = <<>> THEN None ELSE rows[1].id

\* the foreign keys SQLite enforces on an INSERT
ForeignKeysHold(db, table, row) ==
    CASE table \in {"project_blocks", "unit_types"} -> HasId(db.projects, row.key[1])
      [] table = "data_lineage" -> HasId(db.source_reports, row.source_report_id)
      [] OTHER -> TRUE

\* the INSERT a flush emits for one object; no table modelled here declares
\* a unique constraint, so only the foreign keys can make it fail
Insert(db, table, row) ==
    IF ForeignKeysHold(db, table, row)
    THEN [ok |-> TRUE,
          db |-> [db EXCEPT ![table] = Append(@, [row EXCEPT !.id = NextId(db[table])])]]
    ELSE [ok |-> FALSE, db |-> db]

\* session.flush(): the pending objects are inserted in the order they were
\* added; the first failing INSERT raises
RECURSIVE Flush(_, _)
Flush(db, pending) ==
    IF pending = <<>> THEN [ok |-> TRUE, db |-> db]
    ELSE IF Insert(db, "data_lineage", Head(pending)).ok
         THEN Flush(Insert(db, "data_lineage", Head(pending)).db, Tail(pending))
         ELSE [ok |-> FALSE, db |-> db]

DataLineage(table_name, record_id, source_report_id, page_number, confidence) ==
    [id |-> None, table_name |-> table_name, record_id |-> record_id,
     source_report_id |-> source_report_id, page_number |-> page_number,
     confidence_score |-> confidence]

\* what a call returns or raises: the instance's id and created
Returned(db, id, created) ==
    [raised |-> FALSE, db |-> db, id |-> id, created |-> created]
Raised(db) == [raised |-> TRUE, db |-> db, id |-> None, created |-> FALSE]

\* _get_or_create that never finds the row
_get_or_create_always(db, model_class, key, defaults) ==
    IF Insert(db, model_class, [id |-> None, key |-> key, val |-> defaults]).ok
    THEN Returned(Insert(db, model_class,
                         [id |-> None, key |-> key, val |-> defaults]).db,
                  NextId(db[model_class]), TRUE)
    ELSE Raised(db)

\* _get_or_create that brings the row it finds up to the defaults passed
_get_or_create_updating(db, model_class, key, defaults) ==
    IF first(filter_by(db[model_class], key)) # None
    THEN Returned([db EXCEPT ![model_class] =
                      [k \in 1..Len(@) |->
                          IF @[k].id = first(filter_by(db[model_class], key))
                          THEN [@[k] EXCEPT !.val = defaults] ELSE @[k]]],
                  first(filter_by(db[model_class], key)), FALSE)
    ELSE IF Insert(db, model_class, [id |-> None, key |-> key, val |-> defaults]).ok
    THEN Returned(Insert(db, model_class,
                         [id |-> None, key |-> key, val |-> defaults]).db,
                  NextId(db[model_class]), TRUE)
    ELSE Raised(db)

\* BaseSeeder._get_or_create on the database db the session sees
_get_or_create(db, model_class, key, defaults) ==
    IF first(filter_by(db[model_class], key)) # None
    THEN Returned(db, first(filter_by(db[model_class], key)), FALSE)
    ELSE IF Insert(db, model_class, [id |-> None, key |-> key, val |-> defaults]).ok
    THEN Returned(Insert(db, model_class,
                         [id |-> None, key |-> key, val |-> defaults]).db,
                  NextId(db[model_class]), TRUE)
    ELSE Raised(db)

\* the lineage part written without the test of created
AddLineageAlways(got, table_name, source_report_id, page_number, confidence) ==
    IF got.raised THEN got
    ELSE IF Insert(got.db, "data_lineage",
                   DataLineage(table_name, got.id, source_report_id,
                               page_number, confidence)).ok
    THEN [got EXCEPT !.db =
             Insert(got.db, "data_lineage",
                    DataLineage(table_name, got.id, source_report_id,
                                page_number, confidence)).db]
    ELSE Raised(got.db)

\* the lineage part of _get_or_create_with_lineage, given what _get_or_create
\* returned
AddLineage(got, table_name, source_report_id, page_number, confidence) ==
    IF got.raised \/ ~got.created THEN got
    ELSE IF Insert(got.db, "data_lineage",
                   DataLineage(table_name, got.id, source_report_id,
                               page_number, confidence)).ok
    THEN [got EXCEPT !.db =
             Insert(got.db, "data_lineage",
                    DataLineage(table_name, got.id, source_report_id,
                                page_number, confidence)).db]
    ELSE Raised(got.db)

\* LineageAwareSeeder._get_or_create_with_lineage
_get_or_create_with_lineage(db, model_class, table_name, source_report_id, page_number, confidence, key, defaults) ==
    AddLineage(_get_or_create(db, model_class, key, defaults),
               table_name, source_report_id, page_number, confidence)

\* register_source_report: a new SourceReport row, flushed
register_source_report(db, filename) ==
    Returned([db EXCEPT !.source_reports =
                 Append(@, [id |-> NextId(db.source_reports), filename |-> filename,
                            status |-> "pending"])],
             NextId(db.source_reports), TRUE)

---------------------------------------------------------------------------
(* Sessions.  A flush that fails rolls the transaction back and leaves the *)
(* session unusable until rollback() is called; a session opens its        *)
(* transaction, and takes the database's write lock, at its first INSERT.  *)

NoCall ==
    [op |-> "none", table |-> "", key |-> <<>>, defaults |-> None,
     source_report_id |-> None,
     page_number |-> None, confidence |-> 0, raised |-> FALSE, id |-> None,
     created |-> FALSE, rows_before |-> 0, lineage_before |-> 0]

\* the record of a call: its arguments (defaults is None for a call that
\* takes none), what it returned or raised, and how
\* many rows its table and data_lineage held, as the session saw them, when
\* it was made
Call(op, table, key, defaults, source_report_id, page_number, confidence, result, before) ==
    [op |-> op, table |-> table, key |-> key, defaults |-> defaults,
     source_report_id |-> source_report_id, page_number |-> page_number,
     confidence |-> confidence, raised |-> result.raised, id |-> result.id,
     created |-> result.created,
     rows_before |-> IF table \in DOMAIN before THEN Len(before[table]) ELSE 0,
     lineage_before |-> Len(before.data_lineage)]

\* the locals of a call in progress, when none is
NoLocals ==
    [key |-> <<>>, defaults |-> 0, source_report_id |-> None,
     page_number |-> None, confidence |-> 0, id |-> None,
     rows_before |-> 0, lineage_before |-> 0]

\* what is kept of the call before the last
Earlier(call) ==
    [op |-> call.op, table |-> call.table, key |-> call.key,
     raised |-> call.raised]

\* no matcher constructed
NoMatcher == [built |-> FALSE, aliases |-> <<>>, _cache |-> <<>>,
              _name_to_id |-> <<>>]

NoMatching ==
    /\ projects = <<>>
    /\ matcher = NoMatcher
    /\ snap = <<>>
    /\ mop = "idle"
    /\ minput = <<>>
    /\ mresult = Miss

\* no extracted file read, no seeder run
NoRun == [op |-> "none"]

\* an empty database and fresh sessions
StoreIdle ==
    /\ files = <<>>
    /\ run = NoRun
    /\ store = EmptyDb
    /\ txn = [w \in Workers |-> NoTxn]
    /\ pend = [w \in Workers |-> <<>>]
    /\ broken = [w \in Workers |-> FALSE]
    /\ last = [w \in Workers |-> NoCall]
    /\ prev = [w \in Workers |-> Earlier(NoCall)]
    /\ calls = [w \in Workers |-> 0]
    /\ pc = [w \in Workers |-> "idle"]
    /\ loc = [w \in Workers |-> NoLocals]

StoreInit == StoreIdle /\ NoMatching

\* session w is between calls and has calls left to make
CanCall(w) == pc[w] = "idle" /\ calls[w] < MaxCalls

\* the pending objects of session w flushed into what it sees
Flushed(w) == Flush(View(w), pend[w])

\* the session after a call that flushed: a result that raised has rolled the
\* transaction back, one that wrote has the transaction open
Finish(w, call, result) ==
    /\ last' = [last EXCEPT ![w] = call]
    /\ prev' = [prev EXCEPT ![w] = Earlier(last[w])]
    /\ calls' = [calls EXCEPT ![w] = @ + 1]
    /\ pend' = [pend EXCEPT ![w] = <<>>]
    /\ IF result.raised
       THEN /\ txn' = [txn EXCEPT ![w] = NoTxn]
            /\ broken' = [broken EXCEPT ![w] = TRUE]
       ELSE /\ txn' = [txn EXCEPT ![w] =
                          IF result.db = View(w) THEN @
                          ELSE [open |-> TRUE, db |-> result.db]]
            /\ UNCHANGED broken
    /\ UNCHANGED <<store, pc, loc>>
    /\ UNCHANGED <<matchVars, runVars>>

\* the call finds its row, or the table has room for one more
HasRoom(w, model_class, key) ==
    \/ first(filter_by(View(w)[model_class], key)) # None
    \/ Len(View(w)[model_class]) < MaxRows

\* seeder._get_or_create(model_class, defaults=defaults, **key)
GetOrCreate(w, model_class, key, defaults) ==
    /\ CanCall(w)
    /\ HasRoom(w, model_class, key)
    /\ Finish(w,
              Call("_get_or_create", model_class, key, defaults, None, None, 0,
                   IF broken[w] \/ ~Flushed(w).ok THEN Raised(View(w))
                   ELSE _get_or_create(Flushed(w).db, model_class, key, defaults),
                   View(w)),
              IF broken[w] \/ ~Flushed(w).ok THEN Raised(View(w))
              ELSE _get_or_create(Flushed(w).db, model_class, key, defaults))

\* seeder._get_or_create_with_lineage(model_class, table_name, ...), with
\* table_name the table of model_class as at every call site
GetOrCreateWithLineage(w, model_class, source_report_id, page_number, confidence, key, defaults) ==
    /\ CanCall(w)
    /\ HasRoom(w, model_class, key)
    \* the call finds its row, or data_lineage has room for one more
    /\ \/ first(filter_by(View(w)[model_class], key)) # None
       \/ Len(View(w).data_lineage) + Len(pend[w]) < MaxLineage
    /\ Finish(w,
              Call("_get_or_create_with_lineage", model_class, key, defaults,
                   source_report_id, page_number, confidence,
                   IF broken[w] \/ ~Flushed(w).ok THEN Raised(View(w))
                   ELSE _get_or_create_with_lineage(
                            Flushed(w).db, model_class, model_class,
                            source_report_id, page_number, confidence,
                            key, defaults),
                   View(w)),
              IF broken[w] \/ ~Flushed(w).ok THEN Raised(View(w))
              ELSE _get_or_create_with_lineage(
                       Flushed(w).db, model_class, model_class,
                       source_report_id, page_number, confidence,
                       key, defaults))

\* register_source_report(session, filename, report_type): the report is
\* inserted before the pending lineage rows, which data_lineage's foreign
\* key orders after it
RegisterSourceReport(w, filename) ==
    /\ CanCall(w)
    /\ Len(View(w).source_reports) < MaxReports
    /\ LET flushed == Flush(register_source_report(View(w), filename).db, pend[w])
           registered ==
               IF broken[w] THEN Raised(View(w))
               ELSE IF flushed.ok
               THEN Returned(flushed.db, NextId(View(w).source_reports), TRUE)
               ELSE Raised(View(w))
       IN  Finish(w,
                  Call("register_source_report", "source_reports", <<filename>>,
                       None, None, None, 0, registered, View(w)),
                  registered)

\* track_lineage(session, table_name, record_id, source_report_id, ...): the
\* row is added to the session and not flushed
TrackLineage(w, table_name, record_id, source_report_id, page_number, confidence) ==
    /\ CanCall(w)
    /\ ~broken[w]
    /\ Len(View(w).data_lineage) + Len(pend[w]) < MaxLineage
    /\ pend' = [pend EXCEPT ![w] =
                   Append(@, DataLineage(table_name, record_id, source_report_id,
                                         page_number, confidence))]
    /\ last' = [last EXCEPT ![w] =
                   Call("track_lineage", table_name, <<record_id>>, None,
                        source_report_id, page_number, confidence,
                        Returned(View(w), None, TRUE), View(w))]
    /\ prev' = [prev EXCEPT ![w] = Earlier(last[w])]
    /\ calls' = [calls EXCEPT ![w] = @ + 1]
    /\ UNCHANGED <<store, txn, broken, pc, loc>>
    /\ UNCHANGED <<matchVars, runVars>>

\* session.commit(): flush, then COMMIT
Commit(w) ==
    /\ CanCall(w)
    /\ last' = [last EXCEPT ![w] =
                   Call("commit", "", <<>>, None, None, None, 0,
                        IF broken[w] \/ ~Flushed(w).ok THEN Raised(View(w))
                        ELSE Returned(Flushed(w).db, None, FALSE),
                        View(w))]
    /\ prev' = [prev EXCEPT ![w] = Earlier(last[w])]
    /\ calls' = [calls EXCEPT ![w] = @ + 1]
    /\ pend' = [pend EXCEPT ![w] = <<>>]
    /\ txn' = [txn EXCEPT ![w] = NoTxn]
    /\ IF broken[w] \/ ~Flushed(w).ok
       THEN /\ broken' = [broken EXCEPT ![w] = TRUE]
            /\ UNCHANGED store
       ELSE /\ store' = Flushed(w).db
            /\ UNCHANGED broken
    /\ UNCHANGED <<pc, loc>>
    /\ UNCHANGED <<matchVars, runVars>>

\* seeder.rollback()
Rollback(w) ==
    /\ CanCall(w)
    /\ last' = [last EXCEPT ![w] =
                   Call("rollback", "", <<>>, None, None, None, 0,
                        Returned(store, None, FALSE), View(w))]
    /\ prev' = [prev EXCEPT ![w] = Earlier(last[w])]
    /\ calls' = [calls EXCEPT ![w] = @ + 1]
    /\ pend' = [pend EXCEPT ![w] = <<>>]
    /\ txn' = [txn EXCEPT ![w] = NoTxn]
    /\ broken' = [broken EXCEPT ![w] = FALSE]
    /\ UNCHANGED <<store, pc, loc>>
    /\ UNCHANGED <<matchVars, runVars>>

\* One session running seeder calls.
SeedNext ==
    \/ \E mc \in ModelClasses : \E key \in NaturalKeys(mc) : \E d \in Floors :
           GetOrCreate(1, mc, key, d)
    \/ \E mc \in ModelClasses : \E key \in NaturalKeys(mc) : \E d \in Floors :
       \E s \in 1..MaxReports : \E p \in Pages : \E c \in Confidences :
           GetOrCreateWithLineage(1, mc, s, p, c, key, d)
    \/ \E f \in Filenames : RegisterSourceReport(1, f)
    \/ Commit(1)
    \/ Rollback(1)

SpecSeed == StoreInit /\ [][SeedNext]_vars

\* One session running seeder calls and the lineage utilities.
Next ==
    \/ \E mc \in ModelClasses : \E key \in NaturalKeys(mc) : \E d \in Floors :
           GetOrCreate(1, mc, key, d)
    \/ \E mc \in ModelClasses : \E key \in NaturalKeys(mc) : \E d \in Floors :
       \E s \in 1..MaxReports : \E p \in Pages : \E c \in Confidences :
           GetOrCreateWithLineage(1, mc, s, p, c, key, d)
    \/ \E f \in Filenames : RegisterSourceReport(1, f)
    \/ \E t \in ModelClasses : \E r \in 1..MaxRows : \E s \in 1..MaxReports :
       \E p \in Pages : \E c \in Confidences :
           TrackLineage(1, t, r, s, p, c)
    \/ Commit(1)
    \/ Rollback(1)

Spec == StoreInit /\ [][Next]_vars

---------------------------------------------------------------------------
(* Two workers, each with its own session, making the call of             *)
(* block_seeder.py:32-42: the statements of _get_or_create_with_lineage    *)
(* interleave, and the database has one writer at a time.                  *)

\* the record of the call in progress, as Call makes it
CallOf(w, result) ==
    [op |-> "_get_or_create_with_lineage", table |-> "project_blocks",
     key |-> loc[w].key, defaults |-> loc[w].defaults,
     source_report_id |-> loc[w].source_report_id,
     page_number |-> loc[w].page_number, confidence |-> loc[w].confidence,
     raised |-> result.raised, id |-> result.id, created |-> result.created,
     rows_before |-> loc[w].rows_before,
     lineage_before |-> loc[w].lineage_before]

\* a record of casestudy_blocks.json with no page, no confidence and no floors
DefaultConfidence == 80
NoFloors == None

\* the projects and source reports are seeded and committed before the blocks
ConcInit ==
    /\ store = [EmptyDb EXCEPT
                   !.projects = <<[id |-> 1, key |-> <<"Masteri">>, val |-> 10]>>,
                   !.source_reports = <<[id |-> 1, filename |-> "r1.pdf",
                                         status |-> "ingested"]>>]
    /\ txn = [w \in Workers |-> NoTxn]
    /\ pend = [w \in Workers |-> <<>>]
    /\ broken = [w \in Workers |-> FALSE]
    /\ last = [w \in Workers |-> NoCall]
    /\ prev = [w \in Workers |-> Earlier(NoCall)]
    /\ calls = [w \in Workers |-> 0]
    /\ pc = [w \in Workers |-> "idle"]
    /\ loc = [w \in Workers |-> NoLocals]
    /\ NoMatching
    /\ files = <<>>
    /\ run = NoRun

\* the exception of a failed statement leaves the call: the transaction is
\* rolled back and the session waits for rollback()
Raise(w) ==
    /\ txn' = [txn EXCEPT ![w] = NoTxn]
    /\ broken' = [broken EXCEPT ![w] = TRUE]
    /\ pc' = [pc EXCEPT ![w] = "idle"]
    /\ last' = [last EXCEPT ![w] = CallOf(w, Raised(store))]
    /\ prev' = [prev EXCEPT ![w] = Earlier(last[w])]
    /\ UNCHANGED <<store, pend, calls, loc>>
    /\ UNCHANGED <<matchVars, runVars>>

\* _get_or_create, line 57: the query; a row found returns (instance, False)
Query(w, source_report_id, page_number, confidence, key, defaults) ==
    /\ CanCall(w)
    /\ HasRoom(w, "project_blocks", key)
    /\ calls' = [calls EXCEPT ![w] = @ + 1]
    /\ IF broken[w] \/ first(filter_by(View(w).project_blocks, key)) # None
       THEN /\ last' = [last EXCEPT ![w] =
                           Call("_get_or_create_with_lineage", "project_blocks",
                                key, defaults, source_report_id, page_number,
                                confidence,
                                IF broken[w] THEN Raised(View(w))
                                ELSE Returned(View(w),
                                         first(filter_by(View(w).project_blocks, key)),
                                         FALSE),
                                View(w))]
            /\ prev' = [prev EXCEPT ![w] = Earlier(last[w])]
            /\ UNCHANGED <<pc, loc>>
       ELSE /\ pc' = [pc EXCEPT ![w] = "add"]
            /\ loc' = [loc EXCEPT ![w] =
                          [key |-> key, defaults |-> defaults,
                           source_report_id |-> source_report_id,
                           page_number |-> page_number,
                           confidence |-> confidence, id |-> None,
                           rows_before |-> Len(View(w).project_blocks),
                           lineage_before |-> Len(View(w).data_lineage)]]
            /\ UNCHANGED <<last, prev>>
    /\ UNCHANGED <<store, txn, pend, broken>>
    /\ UNCHANGED <<matchVars, runVars>>

\* no other session has a transaction open
LockFree(w) == \A o \in Workers \ {w} : ~txn[o].open

\* _get_or_create, lines 60 to 63: the new row is added and flushed
InsertEntity(w) ==
    /\ pc[w] = "add"
    /\ LockFree(w)
    /\ IF Insert(View(w), "project_blocks",
                 [id |-> None, key |-> loc[w].key, val |-> loc[w].defaults]).ok
       THEN /\ txn' = [txn EXCEPT ![w] =
                          [open |-> TRUE,
                           db |-> Insert(View(w), "project_blocks",
                                         [id |-> None, key |-> loc[w].key,
                                          val |-> loc[w].defaults]).db]]
            /\ loc' = [loc EXCEPT ![w].id = NextId(View(w).project_blocks)]
            /\ pc' = [pc EXCEPT ![w] = "lineage"]
            /\ UNCHANGED <<store, pend, broken, last, prev, calls>>
            /\ UNCHANGED <<matchVars, runVars>>
       ELSE Raise(w)

\* the INSERT waits for the other session's lock until the busy timeout,
\* and then raises "database is locked"
LockTimeout(w) ==
    /\ pc[w] = "add"
    /\ ~LockFree(w)
    /\ Raise(w)

\* _get_or_create_with_lineage, lines 87 to 98: the lineage row is added and
\* flushed, and the call returns (instance, True)
InsertLineage(w) ==
    /\ pc[w] = "lineage"
    /\ IF Insert(txn[w].db, "data_lineage",
                 DataLineage("project_blocks", loc[w].id,
                             loc[w].source_report_id, loc[w].page_number,
                             loc[w].confidence)).ok
       THEN /\ txn' = [txn EXCEPT ![w].db =
                          Insert(txn[w].db, "data_lineage",
                                 DataLineage("project_blocks", loc[w].id,
                                             loc[w].source_report_id,
                                             loc[w].page_number,
                                             loc[w].confidence)).db]
            /\ pc' = [pc EXCEPT ![w] = "idle"]
            /\ last' = [last EXCEPT ![w] =
                           CallOf(w, Returned(store, loc[w].id, TRUE))]
            /\ prev' = [prev EXCEPT ![w] = Earlier(last[w])]
            /\ UNCHANGED <<store, pend, broken, calls, loc>>
            /\ UNCHANGED <<matchVars, runVars>>
       ELSE Raise(w)

ConcNext ==
    \E w \in Workers :
        \/ \E key \in NaturalKeys("project_blocks") : \E s \in 1..MaxReports :
               Query(w, s, None, DefaultConfidence, key, NoFloors)
        \/ InsertEntity(w)
        \/ LockTimeout(w)
        \/ InsertLineage(w)
        \/ Commit(w)
        \/ Rollback(w)

SpecConc == ConcInit /\ [][ConcNext]_vars

---------------------------------------------------------------------------
(* Claims about the store, checked under SpecSeed, SpecConc and Spec.      *)

Rows(rows) == {rows[k] : k \in 1..Len(rows)}

\* the last two calls on session w were _get_or_create with the same model
\* class and natural key, and both returned
CalledTwice(w) ==
    /\ last[w].op = "_get_or_create" /\ prev[w].op = "_get_or_create"
    /\ ~last[w].raised /\ ~prev[w].raised
    /\ prev[w].table = last[w].table
    /\ prev[w].key = last[w].key

\* C1: of two consecutive calls of _get_or_create with the same model class
\* and natural key in one session, the second returns created=False, leaves
\* the table with as many rows as the first left it, and exactly one row
\* carries the key.
C1_SecondCallFindsTheRow ==
    \A w \in Workers :
        CalledTwice(w) =>
            /\ ~last[w].created
            /\ Len(View(w)[last[w].table]) = last[w].rows_before
            /\ Len(filter_by(View(w)[last[w].table], last[w].key)) = 1
            /\ last[w].id = filter_by(View(w)[last[w].table], last[w].key)[1].id

\* the second call found its row in a table that holds another row as well
C1_Witness ==
    /\ CalledTwice(1)
    /\ Len(View(1)[last[1].table]) = 2

\* no two rows of data_lineage carry the same (table_name, record_id)
OneLineagePerRecord(db) ==
    \A i, j \in 1..Len(db.data_lineage) :
        i # j => \/ db.data_lineage[i].table_name # db.data_lineage[j].table_name
                 \/ db.data_lineage[i].record_id # db.data_lineage[j].record_id

\* C2: a call of _get_or_create_with_lineage that creates the row adds one
\* data_lineage row, carrying the new row's id and the source_report_id, page
\* and confidence given; a call that finds the row adds none; and no
\* (table_name, record_id) pair has two data_lineage rows.
C2_OneLineagePerCreation ==
    \A w \in Workers :
        /\ last[w].op = "_get_or_create_with_lineage" /\ ~last[w].raised =>
              IF last[w].created
              THEN /\ Len(View(w).data_lineage) = last[w].lineage_before + 1
                   /\ Len(View(w)[last[w].table]) = last[w].rows_before + 1
                   /\ View(w)[last[w].table][Len(View(w)[last[w].table])].id = last[w].id
                   /\ View(w)[last[w].table][Len(View(w)[last[w].table])].key = last[w].key
                   /\ \E l \in {View(w).data_lineage[Len(View(w).data_lineage)]} :
                          /\ l.table_name = last[w].table
                          /\ l.record_id = last[w].id
                          /\ l.source_report_id = last[w].source_report_id
                          /\ l.page_number = last[w].page_number
                          /\ l.confidence_score = last[w].confidence
              ELSE /\ Len(View(w).data_lineage) = last[w].lineage_before
                   /\ Len(View(w)[last[w].table]) = last[w].rows_before
        /\ OneLineagePerRecord(View(w))
        /\ OneLineagePerRecord(store)

\* a call found a row that an earlier call created with its lineage
C2_Witness ==
    /\ last[1].op = "_get_or_create_with_lineage"
    /\ ~last[1].raised /\ ~last[1].created
    /\ \E l \in Rows(View(1).data_lineage) :
           l.table_name = last[1].table /\ l.record_id = last[1].id

\* C3: whatever the interleaving of two workers calling
\* _get_or_create_with_lineage, the committed project_blocks table holds at
\* most one row for a natural key, and that row has exactly one data_lineage
\* row.
C3_OneCreationWins ==
    \A key \in NaturalKeys("project_blocks") :
        /\ Len(filter_by(store.project_blocks, key)) <= 1
        /\ \A r \in Rows(filter_by(store.project_blocks, key)) :
               Cardinality({k \in 1..Len(store.data_lineage) :
                               /\ store.data_lineage[k].table_name = "project_blocks"
                               /\ store.data_lineage[k].record_id = r.id}) = 1

\* every data_lineage row of db references a source report and a row of db
NoDanglingLineage(db) ==
    \A l \in Rows(db.data_lineage) :
        /\ HasId(db.source_reports, l.source_report_id)
        /\ l.table_name \in ModelClasses
        /\ HasId(db[l.table_name], l.record_id)

\* C4: every data_lineage row, in the committed database and in what a
\* session sees, references an existing source report and an existing row
\* with id record_id of the table table_name.
C4_NoDanglingLineage ==
    /\ NoDanglingLineage(store)
    /\ \A w \in Workers : NoDanglingLineage(View(w))

---------------------------------------------------------------------------
(* The matcher and its callers.                                            *)

MatchInit ==
    /\ StoreIdle
    /\ projects = <<>>
    /\ matcher = NoMatcher
    /\ snap = <<>>
    /\ mop = "idle"
    /\ minput = <<>>
    /\ mresult = Miss

\* ProjectSeeder.seed on one record: _get_or_create(Project, name=...)
SeedProject(name) ==
    /\ mop = "idle"
    /\ Len(projects) < MaxProjects
    /\ \A k \in 1..Len(projects) : projects[k].name # name
    /\ projects' = Append(projects, [id |-> Len(projects) + 1, name |-> name])
    /\ UNCHANGED <<matcher, snap, mop, minput, mresult>>
    /\ UNCHANGED <<storeVars, runVars>>

\* ProjectMatcher(session, aliases=aliases)
Construct(aliases) ==
    /\ mop = "idle"
    /\ matcher' = _load_projects(projects, aliases)
    /\ snap' = projects
    /\ UNCHANGED <<projects, mop, minput, mresult>>
    /\ UNCHANGED <<storeVars, runVars>>

\* match on a matcher that loads the projects again at every call
CallMatchReloading(extracted_name) ==
    /\ mop = "idle"
    /\ matcher.built
    /\ mop' = "match"
    /\ minput' = extracted_name
    /\ matcher' = _load_projects(projects, matcher.aliases)
    /\ mresult' = Match(matcher', extracted_name)
    /\ UNCHANGED <<projects, snap>>
    /\ UNCHANGED <<storeVars, runVars>>

\* matcher.match(extracted_name)
CallMatch(extracted_name) ==
    /\ mop = "idle"
    /\ matcher.built
    /\ mop' = "match"
    /\ minput' = extracted_name
    /\ mresult' = Match(matcher, extracted_name)
    /\ UNCHANGED <<projects, matcher, snap>>
    /\ UNCHANGED <<storeVars, runVars>>

\* the caller has taken the result
MatchReturn ==
    /\ mop # "idle"
    /\ mop' = "idle"
    /\ minput' = <<>>
    /\ mresult' = Miss
    /\ UNCHANGED <<projects, matcher, snap>>
    /\ UNCHANGED <<storeVars, runVars>>

MatchNext ==
    \/ \E name \in CanonNames : SeedProject(name)
    \/ \E aliases \in AliasTables : Construct(aliases)
    \/ \E x \in MatchInputs : CallMatch(x)
    \/ MatchReturn

SpecMatch == MatchInit /\ [][MatchNext]_vars

---------------------------------------------------------------------------
(* _normalize applied to a name, and then to its own result.               *)

NormInit ==
    /\ StoreIdle
    /\ projects = <<>>
    /\ matcher = NoMatcher
    /\ snap = <<>>
    /\ mop = "idle"
    /\ minput \in NormInputs
    /\ mresult = <<>>

\* ProjectMatcher._normalize(name)
CallNormalize ==
    /\ mop = "idle"
    /\ mop' = "normalize"
    /\ mresult' = Normalize(minput)
    /\ UNCHANGED <<projects, matcher, snap, minput>>
    /\ UNCHANGED <<storeVars, runVars>>

\* ProjectMatcher._normalize(ProjectMatcher._normalize(name))
CallNormalizeAgain ==
    /\ mop = "normalize"
    /\ mop' = "renormalize"
    /\ minput' = mresult
    /\ mresult' = Normalize(mresult)
    /\ UNCHANGED <<projects, matcher, snap>>
    /\ UNCHANGED <<storeVars, runVars>>

NormNext == CallNormalize \/ CallNormalizeAgain

SpecNorm == NormInit /\ [][NormNext]_vars

---------------------------------------------------------------------------
(* Claims about the matcher, checked under SpecMatch and SpecNorm.         *)

Ids(ps) == {ps[k].id : k \in 1..Len(ps)}
Entries(m) == {m._cache[k] : k \in 1..Len(m._cache)}
Aliases(m) == {m.aliases[k] : k \in 1..Len(m.aliases)}
Matched == mop = "match"
Cleaned == Strip(minput)

\* the input is rejected by the junk filter, stated on the input alone
JunkInput ==
    \/ minput = <<>>
    \/ Len(Cleaned) < 3
    \/ Lower(Cleaned) \in _JUNK_NAMES
    \/ \E k \in 1..Len(_JUNK_PATTERNS) : Ends(_JUNK_PATTERNS[k], Cleaned, 1, TRUE) # <<>>

\* what each tier needs to hit, stated on the index the matcher holds
ExactSat == \E e \in Entries(matcher) : Lower(e.name) = Lower(Cleaned)
AliasSat ==
    \E a \in Aliases(matcher) : \E c \in {Cleaned, Normalize(minput)} :
        /\ Lower(c) = Lower(a.key) \/ Normalize(a.key) = Normalize(c)
        /\ Lower(a.target) \in DOMAIN matcher._name_to_id
NormSat == \E e \in Entries(matcher) : e.key = Normalize(minput)
SubstringSat ==
    \E e \in Entries(matcher) :
        /\ e.name # <<>>
        /\ \/ Contains(Lower(Cleaned), Lower(e.name))
           \/ Contains(Lower(e.name), Lower(Cleaned))

\* C5: match applied to a canonical name loaded at construction, in any letter
\* case and with any surrounding whitespace, returns that name's id with
\* confidence 1.0.
C5_CanonicalNameIsExact ==
    Matched =>
        \A k \in 1..Len(snap) :
            Lower(Cleaned) = Lower(snap[k].name)
                => mresult = Hit(snap[k].id, 100)

\* C6: match of the empty string, of a name whose trimmed length is below 3,
\* of a junk label in any case and of a name matching a junk pattern returns
\* (None, 0.0), whatever the later tiers would find.
C6_JunkIsRejected == Matched /\ JunkInput => mresult = Miss

\* a junk name is rejected although the normalized tier would resolve it
C6_Witness ==
    /\ Matched /\ JunkInput /\ Len(Cleaned) >= 3
    /\ NormSat
    /\ mresult = Miss

C8_AliasNeedsKnownTarget ==
    Matched =>
        /\ mresult.conf = 95 =>
              \E a \in Aliases(matcher) : \E c \in {Cleaned, Normalize(minput)} :
                  /\ Lower(c) = Lower(a.key) \/ Normalize(a.key) = Normalize(c)
                  /\ \E k \in 1..Len(snap) :
                        /\ Lower(snap[k].name) = Lower(a.target)
                        /\ mresult.id = snap[k].id
        /\ (/\ ~JunkInput /\ ~ExactSat
            /\ \A a \in Aliases(matcher) :
                  \A k \in 1..Len(snap) : Lower(snap[k].name) # Lower(a.target))
              => /\ mresult.conf # 95
                 /\ NormSat => mresult.conf = 90
                 /\ ~NormSat /\ SubstringSat => mresult.conf \in 50..80

\* the input equals an alias key whose target is no loaded project, and the
\* normalized tier answers
C8_Witness ==
    /\ Matched /\ mresult.conf = 90
    /\ \E a \in Aliases(matcher) :
          /\ Lower(Cleaned) = Lower(a.key)
          /\ \A k \in 1..Len(snap) : Lower(snap[k].name) # Lower(a.target)

\* C9: the index is the one built from the projects present at construction:
\* match changes neither the index nor the projects table, inserting projects
\* changes neither the index nor any result of match, and match never returns
\* a project inserted after construction.
C9_IndexIsSnapshot ==
    /\ [](matcher.built =>
            /\ matcher = _load_projects(snap, matcher.aliases)
            /\ Matched =>
                  /\ mresult = Match(_load_projects(snap, matcher.aliases), minput)
                  /\ mresult.id \in Ids(snap) \cup {None})
    /\ [][mop' = "match" => matcher' = matcher /\ projects' = projects]_vars

\* a project inserted after construction is not resolved, and a matcher
\* constructed now would resolve it
C9_Witness ==
    /\ Matched /\ mresult = Miss
    /\ projects # snap
    /\ Match(_load_projects(projects, matcher.aliases), minput).conf = 100

\* C10: _normalize(_normalize(x)) equals _normalize(x).
C10_NormalizeIdempotent == mop = "renormalize" => mresult = minput

\* no tier before the substring tier answers the input
SubstringTierReached == Matched /\ ~JunkInput /\ ~ExactSat /\ ~AliasSat /\ ~NormSat

\* C11: at the substring tier the result is the one that containment between
\* the normalized input and the normalized canonical names gives: the
\* longest overlap, the first loaded on a tie, with confidence
\* 0.5 + 0.3 * (overlap length / max length) rounded to 2 decimals.
C11_SubstringOnNormalizedNames ==
    SubstringTierReached =>
        \* the index with every db_name replaced by its normalized form
        LET index == [matcher EXCEPT !._cache =
                         [k \in 1..Len(matcher._cache) |->
                             [matcher._cache[k] EXCEPT
                                 !.name = matcher._cache[k].key]]]
        IN  mresult = Tier4(index, Normalize(minput), 1, Miss, 0)

\* C13: match returns (None, 0.0), or the id of a project loaded at
\* construction with confidence 1.0, 0.95, 0.9 or one from 0.5 to 0.8.
C13_ResultShape ==
    Matched =>
        \/ mresult = Miss
        \/ /\ mresult.id # None
           /\ mresult.id \in Ids(snap)
           /\ mresult.conf \in {100, 95, 90} \cup (50..80)

\* the substring tier answered with a confidence strictly inside its range
C13_Witness ==
    /\ SubstringTierReached
    /\ mresult.id \in Ids(snap)
    /\ mresult.conf \in 51..79

---------------------------------------------------------------------------
(* match applied to two inputs by a matcher that holds one project.        *)

\* the two names, joined from these pieces
PairInputs ==
    Joins({<<"A","b","c">>, <<"d">>, <<"A","b","c","d","e">>, <<"x">>, <<"X","y","z">>},
          MaxTokens)

PairInit ==
    /\ StoreIdle
    /\ projects \in {<<[id |-> 1, name |-> n]>> : n \in CanonNames}
    /\ matcher = _load_projects(projects, <<>>)
    /\ snap = projects
    /\ mop = "idle"
    /\ minput = <<>>
    /\ mresult = Miss

\* matcher.match(x): the first call, or the second after it
CallMatchOfPair(x) ==
    /\ mop \in {"idle", "first"}
    /\ mop' = IF mop = "idle" THEN "first" ELSE "pair"
    /\ minput' = Append(minput, x)
    /\ mresult' = Append(IF mop = "idle" THEN <<>> ELSE mresult, Match(matcher, x))
    /\ UNCHANGED <<projects, matcher, snap>>
    /\ UNCHANGED <<storeVars, runVars>>

PairReturn ==
    /\ mop = "pair"
    /\ mop' = "idle"
    /\ minput' = <<>>
    /\ mresult' = Miss
    /\ UNCHANGED <<projects, matcher, snap>>
    /\ UNCHANGED <<storeVars, runVars>>

PairNext ==
    \/ \E x \in PairInputs : CallMatchOfPair(x)
    \/ PairReturn

SpecPair == PairInit /\ [][PairNext]_vars

\* both inputs were resolved to the project by the substring tier
PairAtSubstring ==
    /\ mop = "pair"
    /\ mresult[1].id = snap[1].id /\ mresult[1].conf \in 50..80
    /\ mresult[2].id = snap[1].id /\ mresult[2].conf \in 50..80

\* the lengths tier 4 compares for input number i
OverlapLen(i) == Min(Len(Lower(snap[1].name)), Len(Lower(Strip(minput[i]))))
MaxLen(i) == Max(Len(Lower(snap[1].name)), Len(Lower(Strip(minput[i]))))

---------------------------------------------------------------------------
(* _get_or_create on a row that exists.                                    *)

\* C17: a _get_or_create call made when a row with its natural key exists
\* returns that row with created = FALSE and writes nothing: what the session
\* sees and the committed database are the same after the call as before it,
\* whatever defaults were passed (so the row DistrictMetricSeeder ingested
\* from the extracted file keeps its value when _compute_aggregates calls
\* _get_or_create with the same district, period and metric type).
C17_FoundWritesNothing ==
    [][(/\ calls[1]' = calls[1] + 1
        /\ last[1]'.op = "_get_or_create"
        /\ ~last[1]'.raised
        /\ first(filter_by(View(1)[last[1]'.table], last[1]'.key)) # None)
       => /\ ~last[1]'.created
          /\ last[1]'.id = first(filter_by(View(1)[last[1]'.table], last[1]'.key))
          /\ View(1)' = View(1)
          /\ store' = store]_vars

\* the last call found a row whose stored defaults differ from those passed
C17_Witness ==
    /\ last[1].op = "_get_or_create"
    /\ ~last[1].raised
    /\ ~last[1].created
    /\ \E r \in Rows(View(1)[last[1].table]) :
           r.id = last[1].id /\ r.key = last[1].key /\ r.val # last[1].defaults

---------------------------------------------------------------------------
(* Seeding runs.  One session runs seed() of the seeders, as run_all and   *)
(* the tests do.  BlockSeeder (like FacilitySeeder and PriceFactorSeeder)  *)
(* calls self._find_project, which neither it nor BaseSeeder nor           *)
(* LineageAwareSeeder defines; UnitTypeSeeder (like SalesPointSeeder and   *)
(* SalesStatusSeeder) defines it.  A record is [has, project_name, name,   *)
(* source_file]: has is the set of fields it holds, name stands for its    *)
(* block_name or type_name, and source_file is "" when _meta has none.     *)
(* The session of a seeding run has nothing pending and no failed flush    *)
(* behind it when ProjectSeeder or an extracted-data seeder starts.        *)

MaxRecords == 2     \* records of one extracted file

Seeders == {"BlockSeeder", "UnitTypeSeeder"}

\* the table a seeder fills
TableOf(seeder) == IF seeder = "BlockSeeder" THEN "project_blocks" ELSE "unit_types"

\* the seeders whose class defines _find_project
HasFindProject == {"UnitTypeSeeder"}

\* SOURCE_FILES of source_report_seeder.py
SOURCE_FILES == <<"r1.pdf">>

RECURSIVE ListsOf(_, _)
ListsOf(S, n) ==
    IF n = 0 THEN {<<>>}
    ELSE ListsOf(S, n - 1) \cup {Append(l, x) : l \in ListsOf(S, n - 1), x \in S}

\* what an extracted file can hold: at most MaxRecords records, complete or
\* lacking a required field
ExtractedFiles ==
    LET RecordNames == {<<>>, <<"A","b","c">>, <<"A","b","c","d","e">>, <<"X","y","z">>}
        Records ==
            {[has |-> {"project_name", "name"}, project_name |-> n, name |-> k,
              source_file |-> f] :
                n \in RecordNames, k \in {"T1", "T2"}, f \in {"", "r1.pdf"}}
            \cup {[has |-> {"name"}, project_name |-> <<>>, name |-> "T1",
                   source_file |-> "r1.pdf"],
                  [has |-> {"project_name"}, project_name |-> <<"A","b","c">>,
                   name |-> "", source_file |-> "r1.pdf"]}
    IN  ListsOf(Records, MaxRecords)

\* SQLite's LIKE: % stands for any run of characters, _ for any one, and
\* letters are compared without case
RECURSIVE Like(_, _)
Like(pattern, s) ==
    IF pattern = <<>> THEN s = <<>>
    ELSE IF Head(pattern) = "%"
    THEN Like(Tail(pattern), s) \/ (s # <<>> /\ Like(pattern, Tail(s)))
    ELSE /\ s # <<>>
         /\ Head(pattern) = "_" \/ LowerChar(Head(pattern)) = LowerChar(Head(s))
         /\ Like(Tail(pattern), Tail(s))

\* session.query(Project).filter(Project.name.ilike(f"%{name}%")).first()
_find_project(db, name) ==
    first(SelectSeq(db.projects, LAMBDA r : Like(<<"%">> \o name \o <<"%">>, r.key[1])))

\* LineageAwareSeeder._get_source_report
_get_source_report(db, filename) ==
    first(SelectSeq(db.source_reports, LAMBDA r : r.filename = filename))

\* seed() left by an exception.  outcomes keeps what became of each record:
\* status, the project and the source report found for it, the id of its
\* row, and how many data_lineage rows its iteration wrote
SeedRaises(st, exception, project, report) ==
    [st EXCEPT !.raised = exception,
               !.outcomes = Append(@, [status |-> "raised", project |-> project,
                                       report |-> report, id |-> None,
                                       lineage |-> 0])]

\* the end of an iteration of seed(): got is what _get_or_create or
\* _get_or_create_with_lineage returned
SeedCounts(st, project, report, got) ==
    IF got.raised THEN SeedRaises(st, "IntegrityError", project, report)
    ELSE [db |-> got.db,
          count |-> IF got.created THEN st.count + 1 ELSE st.count,
          raised |-> "none",
          outcomes |->
              Append(st.outcomes,
                     [status |-> IF got.created THEN "created" ELSE "found",
                      project |-> project, report |-> report, id |-> got.id,
                      lineage |-> Len(got.db.data_lineage) - Len(st.db.data_lineage)])]

\* an iteration that leaves a record with no registered source file out
SeedRecordTrackedOnly(seeder, st, record) ==
    IF st.raised # "none" THEN st
    ELSE IF seeder \notin HasFindProject
    THEN SeedRaises(st, "AttributeError", None, None)
    ELSE IF "project_name" \notin record.has
    THEN SeedRaises(st, "KeyError", None, None)
    ELSE IF _find_project(st.db, record.project_name) = None
    THEN [st EXCEPT !.outcomes =
             Append(@, [status |-> "skipped", project |-> None, report |-> None,
                        id |-> None, lineage |-> 0])]
    ELSE IF "name" \notin record.has
    THEN SeedRaises(st, "KeyError", _find_project(st.db, record.project_name),
                    _get_source_report(st.db, record.source_file))
    ELSE IF _get_source_report(st.db, record.source_file) # None
    THEN SeedCounts(st, _find_project(st.db, record.project_name),
                    _get_source_report(st.db, record.source_file),
                    _get_or_create_with_lineage(
                        st.db, TableOf(seeder), TableOf(seeder),
                        _get_source_report(st.db, record.source_file),
                        None, DefaultConfidence,
                        <<_find_project(st.db, record.project_name), record.name>>,
                        NoFloors))
    ELSE [st EXCEPT !.outcomes =
             Append(@, [status |-> "skipped",
                        project |-> _find_project(st.db, record.project_name),
                        report |-> None, id |-> None, lineage |-> 0])]

\* one iteration of the loop of seed() over a record with no page, no
\* confidence and no floors
SeedRecord(seeder, st, record) ==
    IF st.raised # "none" THEN st
    ELSE IF seeder \notin HasFindProject
    THEN SeedRaises(st, "AttributeError", None, None)
    ELSE IF "project_name" \notin record.has
    THEN SeedRaises(st, "KeyError", None, None)
    ELSE IF _find_project(st.db, record.project_name) = None
    THEN [st EXCEPT !.outcomes =
             Append(@, [status |-> "skipped", project |-> None, report |-> None,
                        id |-> None, lineage |-> 0])]
    ELSE IF "name" \notin record.has
    THEN SeedRaises(st, "KeyError", _find_project(st.db, record.project_name),
                    _get_source_report(st.db, record.source_file))
    ELSE IF _get_source_report(st.db, record.source_file) # None
    THEN SeedCounts(st, _find_project(st.db, record.project_name),
                    _get_source_report(st.db, record.source_file),
                    _get_or_create_with_lineage(
                        st.db, TableOf(seeder), TableOf(seeder),
                        _get_source_report(st.db, record.source_file),
                        None, DefaultConfidence,
                        <<_find_project(st.db, record.project_name), record.name>>,
                        NoFloors))
    ELSE SeedCounts(st, _find_project(st.db, record.project_name), None,
                    _get_or_create(
                        st.db, TableOf(seeder),
                        <<_find_project(st.db, record.project_name), record.name>>,
                        NoFloors))

\* the loop of seed()
RECURSIVE SeedRecords(_, _, _)
SeedRecords(seeder, st, records) ==
    IF records = <<>> THEN st
    ELSE SeedRecords(seeder, SeedRecord(seeder, st, Head(records)), Tail(records))

\* the loop of ProjectSeeder.seed over the names of projects.json
RECURSIVE SeedProjects(_, _)
SeedProjects(db, names) ==
    IF names = <<>> THEN db
    ELSE SeedProjects(_get_or_create(db, "projects", <<Head(names)>>, NoFloors).db,
                      Tail(names))

\* the loop of SourceReportSeeder.seed over SOURCE_FILES
RECURSIVE SeedSourceReports(_, _)
SeedSourceReports(db, filenames) ==
    IF filenames = <<>> THEN db
    ELSE IF _get_source_report(db, Head(filenames)) # None
    THEN SeedSourceReports(db, Tail(filenames))
    ELSE SeedSourceReports(
             [db EXCEPT !.source_reports =
                 Append(@, [id |-> NextId(db.source_reports),
                            filename |-> Head(filenames), status |-> "ingested"])],
             Tail(filenames))

\* the extracted files are written once, before the seeders run
RunInit ==
    /\ store = EmptyDb
    /\ txn = [w \in Workers |-> NoTxn]
    /\ pend = [w \in Workers |-> <<>>]
    /\ broken = [w \in Workers |-> FALSE]
    /\ last = [w \in Workers |-> NoCall]
    /\ prev = [w \in Workers |-> Earlier(NoCall)]
    /\ calls = [w \in Workers |-> 0]
    /\ pc = [w \in Workers |-> "idle"]
    /\ loc = [w \in Workers |-> NoLocals]
    /\ NoMatching
    /\ \E records \in ExtractedFiles : files = [seeder \in Seeders |-> records]
    /\ run = NoRun

\* ProjectSeeder(session, seed_dir).seed(): the loop, then commit
ProjectSeederSeed(names) ==
    /\ store' = SeedProjects(View(1), names)
    /\ txn' = [txn EXCEPT ![1] = NoTxn]
    /\ run' = NoRun
    /\ UNCHANGED <<pend, broken, last, prev, calls, pc, loc, files>>
    /\ UNCHANGED matchVars

\* SourceReportSeeder(session, seed_dir).seed(): the loop, whose first query
\* flushes what is pending, then commit
SourceReportSeederSeed ==
    /\ IF broken[1] \/ ~Flushed(1).ok
       THEN /\ broken' = [broken EXCEPT ![1] = TRUE]
            /\ UNCHANGED store
       ELSE /\ store' = SeedSourceReports(Flushed(1).db, SOURCE_FILES)
            /\ UNCHANGED broken
    /\ txn' = [txn EXCEPT ![1] = NoTxn]
    /\ pend' = [pend EXCEPT ![1] = <<>>]
    /\ run' = NoRun
    /\ UNCHANGED <<last, prev, calls, pc, loc, files>>
    /\ UNCHANGED matchVars

\* seeder(session, seed_dir).seed(): the loop and then commit; an exception
\* leaves seed() before the commit, with what the loop had flushed still in
\* the session's open transaction
Seed(seeder) ==
    LET \* the locals of seed() after its loop; count is 0 before it
        st == SeedRecords(seeder,
                          [db |-> View(1), count |-> 0, raised |-> "none",
                           outcomes |-> <<>>],
                          files[seeder])
    IN  /\ run' = [op |-> "seed", seeder |-> seeder, raised |-> st.raised,
                   count |-> st.count, outcomes |-> st.outcomes,
                   rows_before |-> Len(View(1)[TableOf(seeder)])]
        /\ IF st.raised = "none"
           THEN /\ store' = st.db
                /\ txn' = [txn EXCEPT ![1] = NoTxn]
           ELSE /\ txn' = [txn EXCEPT ![1] =
                              IF st.db = View(1) THEN @
                              ELSE [open |-> TRUE, db |-> st.db]]
                /\ UNCHANGED store
        /\ UNCHANGED <<pend, broken, last, prev, calls, pc, loc, files>>
        /\ UNCHANGED matchVars

RunNext ==
    \/ \E names \in ListsOf({<<"A","b","c">>, <<"A","b","c","d","e">>}, MaxProjects) \ {<<>>} : ProjectSeederSeed(names)
    \/ SourceReportSeederSeed
    \/ \E seeder \in Seeders : Seed(seeder)

SpecRun == RunInit /\ [][RunNext]_vars

---------------------------------------------------------------------------
(* Claims about seeding runs.  They are stated of the seeders that define  *)
(* _find_project; run holds the seed() call just made.                     *)

Seeded == run.op = "seed" /\ run.seeder \in HasFindProject

\* the records seed() read
RunRecords == files[run.seeder]

\* record number i was ingested: seed() created its row or found it
Ingested(i) == run.outcomes[i].status \in {"created", "found"}

\* C14: seed() ingests a record only when a matcher built on the projects
\* table resolves its project_name with confidence 0.5 or more; a record
\* with an empty, short, junk or otherwise unresolved project_name is
\* dropped.
C14_OnlyResolvedNamesIngested ==
    Seeded =>
        \A i \in 1..Len(run.outcomes) :
            Ingested(i) =>
                \* what session.query(Project).all() returns
                LET ps == [k \in 1..Len(View(1).projects) |->
                              [id |-> View(1).projects[k].id,
                               name |-> View(1).projects[k].key[1]]]
                IN  Match(_load_projects(ps, <<>>),
                          RunRecords[i].project_name).conf >= 50

\* C15: seed() does not raise; a record whose project is not found or that
\* lacks project_name or its name field is skipped, and the row of every
\* other record that names a project found is in the committed database.
C15_BadRecordIsSkipped ==
    Seeded =>
        /\ run.raised = "none"
        /\ \A i \in 1..Len(RunRecords) :
              (/\ RunRecords[i].has = {"project_name", "name"}
               /\ _find_project(store, RunRecords[i].project_name) # None)
              => \E r \in Rows(store[TableOf(run.seeder)]) :
                     r.key = <<_find_project(store, RunRecords[i].project_name),
                               RunRecords[i].name>>

\* seed() reached record number i, found its project and no source report
\* for its source_file
Untracked(i) ==
    /\ i <= Len(run.outcomes)
    /\ "name" \in RunRecords[i].has
    /\ run.outcomes[i].project # None
    /\ run.outcomes[i].report = None

\* the lineage rows of db that reference row id of a table
LineageOf(db, table, id) ==
    {k \in 1..Len(db.data_lineage) :
        /\ db.data_lineage[k].table_name = table
        /\ db.data_lineage[k].record_id = id}

C18_OneLineagePerTrackedRow ==
    (/\ Seeded
     /\ run.raised = "none"
     \* no two records of the file were ingested into the same row
     /\ \A i, j \in 1..Len(run.outcomes) :
           i # j /\ Ingested(i) /\ Ingested(j)
               => run.outcomes[i].id # run.outcomes[j].id)
    =>  \A i \in 1..Len(run.outcomes) :
            (/\ Ingested(i)
             /\ _get_source_report(store, RunRecords[i].source_file) # None)
            => Cardinality(LineageOf(store, TableOf(run.seeder), run.outcomes[i].id)) = 1

\* C20: seed() returns the number of rows it created; over records with
\* pairwise distinct natural keys that name existing projects, with no row
\* in the table before, that number and the number of new rows are the
\* number of records.
C20_CountIsRowsCreated ==
    (/\ Seeded
     /\ run.rows_before = 0
     \* the records name existing projects
     /\ \A i \in 1..Len(RunRecords) :
           /\ RunRecords[i].has = {"project_name", "name"}
           /\ \E r \in Rows(store.projects) : r.key = <<RunRecords[i].project_name>>
     \* and have pairwise distinct natural keys
     /\ \A i, j \in 1..Len(RunRecords) :
           i # j => \/ RunRecords[i].project_name # RunRecords[j].project_name
                    \/ RunRecords[i].name # RunRecords[j].name)
    =>  /\ run.raised = "none"
        /\ run.count = Len(RunRecords)
        /\ Len(store[TableOf(run.seeder)]) = Len(RunRecords)

---------------------------------------------------------------------------
(* The validation pass of lineage_tracker.py, run on a session that also   *)
(* registers source reports, tracks lineage and seeds rows.                *)

\* what validate_lineage_integrity(session) returns on db; issues lists, in
\* the order of its three checks, [check, count] of each check that found rows
validate_lineage_integrity(db) ==
    LET issues ==
            SelectSeq(
                <<[check |-> "orphaned_lineage",
                   count |-> Len(SelectSeq(db.data_lineage,
                                 LAMBDA l : ~HasId(db.source_reports, l.source_report_id)))],
                  [check |-> "unused_sources",
                   count |-> Len(SelectSeq(db.source_reports,
                                 LAMBDA r : /\ \A l \in Rows(db.data_lineage) :
                                                   l.source_report_id # r.id
                                            /\ r.status = "ingested"))],
                  [check |-> "null_confidence",
                   count |-> Len(SelectSeq(db.data_lineage,
                                 LAMBDA l : l.confidence_score = None))]>>,
                LAMBDA issue : issue.count > 0)
    IN  [is_valid |-> Len(issues) = 0, issues |-> issues, checks_performed |-> 3]

\* validate_lineage_integrity(session) on session w: its first query flushes
\* what is pending
ValidateLineageIntegrity(w) ==
    /\ CanCall(w)
    /\ calls' = [calls EXCEPT ![w] = @ + 1]
    /\ pend' = [pend EXCEPT ![w] = <<>>]
    /\ last' = [last EXCEPT ![w] =
                   Call("validate_lineage_integrity", "", <<>>, None, None, None, 0,
                        IF broken[w] \/ ~Flushed(w).ok THEN Raised(View(w))
                        ELSE Returned(Flushed(w).db, None, FALSE),
                        View(w))]
    /\ prev' = [prev EXCEPT ![w] = Earlier(last[w])]
    /\ IF broken[w] \/ ~Flushed(w).ok
       THEN /\ txn' = [txn EXCEPT ![w] = NoTxn]
            /\ broken' = [broken EXCEPT ![w] = TRUE]
            /\ run' = [op |-> "validate_lineage_integrity", raised |-> TRUE]
       ELSE /\ txn' = [txn EXCEPT ![w] =
                          IF Flushed(w).db = View(w) THEN @
                          ELSE [open |-> TRUE, db |-> Flushed(w).db]]
            /\ UNCHANGED broken
            /\ run' = [op |-> "validate_lineage_integrity", raised |-> FALSE,
                       result |-> validate_lineage_integrity(Flushed(w).db)]
    /\ UNCHANGED <<store, pc, loc, files>>
    /\ UNCHANGED matchVars

ValidateNext ==
    \/ \E mc \in ModelClasses : \E key \in NaturalKeys(mc) :
           GetOrCreate(1, mc, key, NoFloors)
    \/ \E f \in Filenames : RegisterSourceReport(1, f)
    \/ SourceReportSeederSeed
    \/ \E t \in ModelClasses : \E r \in 1..MaxRows : \E s \in 1..MaxReports :
       \E c \in {None, DefaultConfidence} :
           TrackLineage(1, t, r, s, None, c)
    \/ Commit(1)
    \/ Rollback(1)
    \/ ValidateLineageIntegrity(1)

SpecValidate == StoreInit /\ [][ValidateNext]_vars

\* C19: when a data_lineage row of the database validated references a source
\* report or a target row that does not exist, validate_lineage_integrity
\* returns is_valid = FALSE and lists an issue; it returns is_valid = TRUE
\* only when there is no such row.
C19_DanglingIsReported ==
    (\* validate_lineage_integrity was the last call on session 1 and returned
     /\ run.op = "validate_lineage_integrity"
     /\ last[1].op = "validate_lineage_integrity"
     /\ ~run.raised
     /\ ~NoDanglingLineage(View(1)))
    =>  ~run.result.is_valid /\ run.result.issues # <<>>

---------------------------------------------------------------------------
(* run_all of seeders/run_all.py: the schema upgrade, then every seeder of  *)
(* SEEDERS on one session, then session.close().  Five of the sixteen      *)
(* seeders are modelled, in the order SEEDERS has them: ProjectSeeder,     *)
(* SupplySeeder, SourceReportSeeder, UnitTypeSeeder and FacilitySeeder.    *)
(* files maps a seeder to the file it loads: status says whether the file  *)
(* is there and parses, records is what it holds.  A supply record is      *)
(* [period, total_inventory]: period is the id of the ReportPeriod row of  *)
(* its period_year and period_half, None when GradeSeeder left none.       *)

MaxRuns == 2        \* calls of run_all in a row

SEEDERS ==
    <<"ProjectSeeder", "SupplySeeder", "SourceReportSeeder", "UnitTypeSeeder",
      "FacilitySeeder">>

\* the seed and extracted files run_all can find
SeedFiles ==
    LET File(records) == [status |-> "ok", records |-> records]
        NoFile == {[status |-> s, records |-> <<>>] : s \in {"missing", "unparseable"}}
        Names == ListsOf({<<"A","b","c">>, <<"A","b","c","d","e">>}, MaxProjects) \ {<<>>}
        Supply == ListsOf({[period |-> p, total_inventory |-> 10] : p \in {None, 1, 2}},
                          MaxRecords)
        UnitTypes ==
            ListsOf({[has |-> {"project_name", "name"}, project_name |-> <<"A","b","c">>,
                      name |-> "T1", source_file |-> f] : f \in {"", "r1.pdf"}}
                    \cup {[has |-> {"project_name"}, project_name |-> <<"A","b","c">>,
                           name |-> "", source_file |-> "r1.pdf"],
                          [has |-> {"project_name", "name"},
                           project_name |-> <<"X","y","z">>, name |-> "T2",
                           source_file |-> "r1.pdf"]},
                    MaxRecords)
    IN  [ProjectSeeder : {File(r) : r \in Names} \cup NoFile,
         SupplySeeder : {File(r) : r \in Supply} \cup NoFile,
         UnitTypeSeeder : {File(r) : r \in UnitTypes} \cup NoFile,
         FacilitySeeder : NoFile]

\* BaseSeeder.load_json: the exception it raises, "none" when it returns
load_json(file) ==
    CASE file.status = "missing" -> "FileNotFoundError"
      [] file.status = "unparseable" -> "JSONDecodeError"
      [] OTHER -> "none"

\* ensure_schema_compatibility: DELETE FROM supply_records WHERE project_id
\* IS NULL AND district_id IS NULL, committed at once
ensure_schema_compatibility(db) ==
    [db EXCEPT !.supply_records =
        SelectSeq(@, LAMBDA r : ~(r.val.project_id = None /\ r.val.district_id = None))]

\* the loop of SupplySeeder.seed: _get_period_id raises ValueError when the
\* period has no row; the row is created from period_id and total_inventory
\* alone, so its project_id and district_id are NULL
RECURSIVE SeedSupply(_, _)
SeedSupply(st, records) ==
    IF records = <<>> \/ st.raised # "none" THEN st
    ELSE IF Head(records).period = None
    THEN [st EXCEPT !.raised = "ValueError"]
    ELSE LET got == _get_or_create(st.db, "supply_records",
                                   <<Head(records).period, Head(records).total_inventory>>,
                                   [project_id |-> None, district_id |-> None])
         IN  SeedSupply([st EXCEPT !.db = got.db,
                                   !.count = IF got.created THEN @ + 1 ELSE @],
                        Tail(records))

\* seeder.validate() and then seeder.seed() on a session that sees db: the
\* exception that left them ("none" when seed() returned, and then it had
\* committed), the count returned and what the session sees afterwards
SeederRun(name, fs, db) ==
    LET Left(exception, after) == [raised |-> exception, count |-> 0, db |-> after]
        Loop(st) == [raised |-> st.raised,
                     count |-> IF st.raised = "none" THEN st.count ELSE 0,
                     db |-> st.db]
        Start == [db |-> db, count |-> 0, raised |-> "none", outcomes |-> <<>>]
    IN  CASE name = "ProjectSeeder" ->
               IF load_json(fs[name]) # "none" THEN Left(load_json(fs[name]), db)
               ELSE [raised |-> "none",
                     count |-> Len(SeedProjects(db, fs[name].records).projects)
                               - Len(db.projects),
                     db |-> SeedProjects(db, fs[name].records)]
          [] name = "SupplySeeder" ->
               IF load_json(fs[name]) # "none" THEN Left(load_json(fs[name]), db)
               ELSE Loop(SeedSupply(Start, fs[name].records))
          [] name = "SourceReportSeeder" ->
               [raised |-> "none",
                count |-> Len(SeedSourceReports(db, SOURCE_FILES).source_reports)
                          - Len(db.source_reports),
                db |-> SeedSourceReports(db, SOURCE_FILES)]
          [] OTHER ->
               \* UnitTypeSeeder and FacilitySeeder: validate() and seed()
               \* catch FileNotFoundError for each file and go on
               IF load_json(fs[name]) = "JSONDecodeError"
               THEN Left("JSONDecodeError", db)
               ELSE IF load_json(fs[name]) = "FileNotFoundError"
               THEN [raised |-> "none", count |-> 0, db |-> db]
               ELSE Loop(SeedRecords(name, Start, fs[name].records))

\* the clauses with the second one raising again
SkipsMissingOnly(exception) == exception = "FileNotFoundError"

\* the inner except clauses of run_all: FileNotFoundError, then Exception;
\* everything the modelled seeders raise is an Exception
Skips(exception) == exception = "FileNotFoundError" \/ exception # "none"

\* the loop of run_all from the seeder names on: s.db is what the session
\* sees, s.store what is committed, s.results the counts so far and
\* s.raised the exception that left the loop
RECURSIVE RunSeeders(_, _, _)
RunSeeders(fs, s, names) ==
    IF names = <<>> \/ s.raised # "none" THEN s
    ELSE LET r == SeederRun(Head(names), fs, s.db)
             Reported == Append(s.results, [name |-> Head(names), count |-> r.count,
                                            raised |-> r.raised])
         IN  IF r.raised = "none"
             THEN RunSeeders(fs, [db |-> r.db, store |-> r.db, results |-> Reported,
                                  raised |-> "none"], Tail(names))
             ELSE IF Skips(r.raised)
             THEN RunSeeders(fs, [db |-> r.db, store |-> s.store, results |-> Reported,
                                  raised |-> "none"], Tail(names))
             ELSE [s EXCEPT !.raised = r.raised]

\* run_all(seed_dir) on the committed database db: start is the database
\* after the schema upgrade, store the one session.close() leaves, what the
\* session had not committed being discarded
run_all(fs, db) ==
    LET s == RunSeeders(fs, [db |-> ensure_schema_compatibility(db),
                             store |-> ensure_schema_compatibility(db),
                             results |-> <<>>, raised |-> "none"], SEEDERS)
    IN  [results |-> s.results, raised |-> s.raised,
         start |-> ensure_schema_compatibility(db), store |-> s.store]

\* the files are written before run_all is first called and stay as they are
RunAllInit ==
    /\ store = EmptyDb
    /\ txn = [w \in Workers |-> NoTxn]
    /\ pend = [w \in Workers |-> <<>>]
    /\ broken = [w \in Workers |-> FALSE]
    /\ last = [w \in Workers |-> NoCall]
    /\ prev = [w \in Workers |-> Earlier(NoCall)]
    /\ calls = [w \in Workers |-> 0]
    /\ pc = [w \in Workers |-> "idle"]
    /\ loc = [w \in Workers |-> NoLocals]
    /\ NoMatching
    /\ files \in SeedFiles
    /\ run = NoRun

\* a call of run_all; n counts the calls made on these files
RunAll ==
    /\ IF run.op = "none" THEN TRUE ELSE run.n < MaxRuns
    /\ store' = run_all(files, store).store
    /\ run' = [op |-> "run_all", n |-> IF run.op = "none" THEN 1 ELSE run.n + 1,
               results |-> run_all(files, store).results,
               raised |-> run_all(files, store).raised,
               before |-> store, start |-> run_all(files, store).start]
    /\ UNCHANGED <<txn, pend, broken, last, prev, calls, pc, loc, files>>
    /\ UNCHANGED matchVars

SpecRunAll == RunAllInit /\ [][RunAll]_vars

\* the table a seeder of SEEDERS fills, "" for one not modelled
SeederTable(name) ==
    CASE name = "ProjectSeeder" -> "projects"
      [] name = "SupplySeeder" -> "supply_records"
      [] name = "SourceReportSeeder" -> "source_reports"
      [] name = "UnitTypeSeeder" -> "unit_types"
      [] OTHER -> ""

\* the rows the table of a seeder gained in the committed database over the
\* last call of run_all
RowsAdded(name) ==
    IF SeederTable(name) = "" THEN 0
    ELSE Len(store[SeederTable(name)]) - Len(run.start[SeederTable(name)])

\* C22: run_all returns normally with a count, possibly 0, for every seeder
\* of SEEDERS in order, whatever a seeder raised (missing file, unparseable
\* JSON, unresolvable data); the seeders after a failed one are still run
\* and reported.
C22_EverySeederReported ==
    run.op = "run_all" =>
        /\ run.raised = "none"
        /\ Len(run.results) = Len(SEEDERS)
        /\ \A k \in 1..Len(SEEDERS) :
              /\ run.results[k].name = SEEDERS[k]
              /\ run.results[k].count \in Nat
              /\ run.results[k].raised # "none" => run.results[k].count = 0

\* a seeder raised something other than FileNotFoundError and a later
\* seeder created rows
C22_Witness ==
    /\ run.op = "run_all"
    /\ \E j, k \in 1..Len(run.results) :
          /\ j < k
          /\ run.results[j].raised \in {"JSONDecodeError", "ValueError", "KeyError"}
          /\ run.results[k].count > 0

\* C23: the second of two calls of run_all on unchanged files creates
\* nothing: every seeder reports 0 and every table holds the rows it held
\* after the first call.
C23_SecondRunCreatesNothing ==
    (run.op = "run_all" /\ run.n = 2) =>
        /\ \A k \in 1..Len(run.results) : run.results[k].count = 0
        /\ store = run.before

\* C30: the count reported for a seeder is the number of rows its run added
\* to the committed database; a seeder reported 0 because it raised
\* part-way left none of its rows there.
C30_CountIsRowsPersisted ==
    run.op = "run_all" =>
        \A k \in 1..Len(run.results) :
            run.results[k].count = RowsAdded(run.results[k].name)

---------------------------------------------------------------------------
(* The extractors.  Their functions take text and return records; files    *)
(* holds what one call is given ([kind |-> "sources"] the source files of  *)
(* the three extractors, [kind |-> "text"] a document, ...) and run the    *)
(* call made on it and what it returned.  The newline is the character     *)
(* "\n"; str.strip() and \s take it for white space.                       *)

MaxPageTokens == 5  \* pieces a document is joined from

WhiteChars == {" ", "\n"}

\* the source file of each extractor: missing, not valid UTF-8, or holding
\* count records
SourceFiles ==
    [{"CasestudyExtractor", "MarketPassExtractor", "PricePassExtractor"} ->
        {[status |-> "missing", count |-> 0], [status |-> "undecodable", count |-> 0],
         [status |-> "ok", count |-> 0], [status |-> "ok", count |-> 2]}]

\* BaseExtractor.read_source: the exception it raises, "none" when it returns
read_source(file) ==
    CASE file.status = "missing" -> "FileNotFoundError"
      [] file.status = "undecodable" -> "UnicodeDecodeError"
      [] OTHER -> "none"

\* extractor.extract(): CasestudyExtractor lets what read_source raises
\* through; the other two catch FileNotFoundError for each file and go on
Extract(name, file) ==
    IF read_source(file) = "none" THEN [raised |-> "none", count |-> file.count]
    ELSE IF name # "CasestudyExtractor" /\ read_source(file) = "FileNotFoundError"
    THEN [raised |-> "none", count |-> 0]
    ELSE [raised |-> read_source(file), count |-> 0]

\* the except clauses of run_extractors: FileNotFoundError is skipped,
\* another Exception is printed and raised again
SkipsExtractor(exception) == exception = "FileNotFoundError"

\* the loop of run_extractors: the counts added to all_results, and the
\* exception that left the loop
RECURSIVE run_extractors(_, _, _)
run_extractors(src, names, all_results) ==
    IF names = <<>> THEN [raised |-> "none", results |-> all_results]
    ELSE LET r == Extract(Head(names), src[Head(names)])
         IN  IF r.raised = "none"
             THEN run_extractors(src, Tail(names),
                                 Append(all_results,
                                        [name |-> Head(names), count |-> r.count]))
             ELSE IF SkipsExtractor(r.raised)
             THEN run_extractors(src, Tail(names), all_results)
             ELSE [raised |-> r.raised, results |-> <<>>]

\* the three extractors, in the order run_extractors runs them
Extractors == <<"CasestudyExtractor", "MarketPassExtractor", "PricePassExtractor">>

RunExtractors ==
    /\ run = NoRun
    /\ files.kind = "sources"
    /\ run' = [op |-> "run_extractors",
               raised |-> run_extractors(files.src, Extractors, <<>>).raised,
               results |-> run_extractors(files.src, Extractors, <<>>).results]
    /\ UNCHANGED <<storeVars, files>>
    /\ UNCHANGED matchVars

\* ^---\s*Page\s+(\d+)\s*---$   (MULTILINE)
PAGE_PATTERN ==
    CatAll(<<[t |-> "bolm"], Lit(<<"-","-","-">>), Star(In(WhiteChars)),
             Lit(<<"P","a","g","e">>), Plus(In(WhiteChars)), Digits1,
             Star(In(WhiteChars)), Lit(<<"-","-","-">>), [t |-> "eolm"]>>)

\* int(s) of a run of digits
RECURSIVE int(_)
int(s) ==
    IF s = <<>> THEN 0
    ELSE 10 * int(SubSeq(s, 1, Len(s) - 1))
         + (CHOOSE d \in 0..9 :
                <<"0","1","2","3","4","5","6","7","8","9">>[d + 1] = s[Len(s)])

\* the matches of pattern r in s from position i on, leftmost first and
\* not overlapping, as re.split and re.finditer find them
RECURSIVE Finditer(_, _, _)
Finditer(r, s, i) ==
    IF i > Len(s) THEN <<>>
    ELSE IF Ends(r, s, i, FALSE) = <<>> \/ Ends(r, s, i, FALSE)[1] = i
    THEN Finditer(r, s, i + 1)
    ELSE <<[start |-> i, end |-> Ends(r, s, i, FALSE)[1]]>>
         \o Finditer(r, s, Ends(r, s, i, FALSE)[1])

\* s.strip()
strip(s) ==
    LET kept == {k \in 1..Len(s) : s[k] \notin WhiteChars}
    IN  IF kept = {} THEN <<>>
        ELSE SubSeq(s, CHOOSE k \in kept : \A j \in kept : k <= j,
                       CHOOSE k \in kept : \A j \in kept : j <= k)

\* BaseExtractor.split_by_pages: PAGE_PATTERN.split(text) alternates the
\* text before a match, its group 1, the text after it; pages[int(group 1)]
\* is assigned the stripped text after each match in turn, so a later match
\* with the same number replaces the entry of an earlier one
split_by_pages(text) ==
    LET ms == Finditer(PAGE_PATTERN, text, 1)
        page_num(k) == int(SelectSeq(SubSeq(text, ms[k].start, ms[k].end - 1),
                                     LAMBDA c : c \in DigitChars))
        content(k) == SubSeq(text, ms[k].end,
                             IF k < Len(ms) THEN ms[k + 1].start - 1 ELSE Len(text))
    IN  [n \in {page_num(k) : k \in 1..Len(ms)} |->
            strip(content(CHOOSE k \in 1..Len(ms) :
                              /\ page_num(k) = n
                              /\ \A j \in 1..Len(ms) : page_num(j) = n => j <= k))]

\* the documents given to split_by_pages
PageTexts ==
    Joins({<<"-","-","-"," ","P","a","g","e"," ","1"," ","-","-","-">>,
           <<"-","-","-"," ","P","a","g","e"," ","2"," ","-","-","-">>,
           <<"\n">>, <<"a">>, <<" ">>},
          MaxPageTokens)

SplitByPages ==
    /\ run = NoRun
    /\ files.kind = "text"
    /\ run' = [op |-> "split_by_pages", pages |-> split_by_pages(files.text)]
    /\ UNCHANGED <<storeVars, files>>
    /\ UNCHANGED matchVars

MaxPages == 4       \* pages of a document

\* PROJECT_HEADER.search(content):
\* ^(?P<number>\d{2})\s+(?P<name>[A-Z][A-Z0-9\s&\-–'.]+?)
\*  (?:\s*[-–]\s*(?:BUILDING SECTION|APT\b).*)?\s*$   (MULTILINE)
\* the groups of the leftmost match; the name is the shortest one after
\* which the rest of the pattern matches
PROJECT_HEADER(content) ==
    LET Head2 == CatAll(<<[t |-> "bolm"], In(DigitChars), In(DigitChars),
                          Plus(In(WhiteChars)), In(UpperChars)>>)
        Rest == Cat(Opt(CatAll(<<Star(In(WhiteChars)), In({"-", "endash"}),
                                 Star(In(WhiteChars)),
                                 Alt(Lit(<<"B","U","I","L","D","I","N","G"," ",
                                           "S","E","C","T","I","O","N">>),
                                     Cat(Lit(<<"A","P","T">>), [t |-> "wb"])),
                                 Star(NotIn({"\n"}))>>)),
                    Cat(Star(In(WhiteChars)), [t |-> "eolm"]))
        NameChars == UpperChars \cup DigitChars \cup WhiteChars
                     \cup {"&", "-", "endash", "'", "."}
        \* where a name that starts before position p can end
        NameEnds(p) ==
            {e \in (p + 1)..(Len(content) + 1) :
                /\ \A j \in p..(e - 1) : content[j] \in NameChars
                /\ Ends(Rest, content, e, FALSE) # <<>>}
        Starts ==
            {i \in 1..Len(content) :
                /\ Ends(Head2, content, i, FALSE) # <<>>
                /\ NameEnds(Ends(Head2, content, i, FALSE)[1]) # {}}
        i0 == CHOOSE i \in Starts : \A j \in Starts : i <= j
        p0 == Ends(Head2, content, i0, FALSE)[1]
        e0 == CHOOSE e \in NameEnds(p0) : \A f \in NameEnds(p0) : e <= f
    IN  IF Starts = {} THEN [found |-> FALSE, number |-> <<>>, name |-> <<>>]
        ELSE [found |-> TRUE, number |-> SubSeq(content, i0, i0 + 1),
              name |-> SubSeq(content, p0 - 1, e0 - 1)]

\* CasestudyExtractor._merge_project_pages: pages is a sequence indexed by
\* page number, so 1..Len(pages) is sorted(pages.keys()); merged is the
\* list the code calls projects
_merge_project_pages(pages) ==
    LET RECURSIVE Merge(_, _)
        Merge(merged, page_num) ==
            IF page_num > Len(pages) THEN merged
            ELSE LET content == pages[page_num]
                     match == PROJECT_HEADER(content)
                     name == strip(match.name)
                     \* p["content"] += "\n" + content for project number k
                     Appended(k) ==
                         [merged EXCEPT ![k].content = @ \o <<"\n">> \o content]
                 IN  IF ~match.found
                     THEN Merge(IF merged # <<>> THEN Appended(Len(merged))
                                ELSE merged,
                                page_num + 1)
                     ELSE IF name = <<"S","U","M","M","A","R","Y">>
                             \/ (Len(name) >= 2 /\ SubSeq(name, 1, 2) = <<"0","0">>)
                     THEN Merge(merged, page_num + 1)
                     ELSE IF \E k \in 1..Len(merged) : merged[k].name = name
                     THEN Merge(Appended(CHOOSE k \in 1..Len(merged) :
                                             merged[k].name = name),
                                page_num + 1)
                     ELSE Merge(Append(merged,
                                       [number |-> match.number, name |-> name,
                                        page |-> page_num, content |-> content]),
                                page_num + 1)
    IN  Merge(<<>>, 1)

\* the pages given to _merge_project_pages: header pages of two projects,
\* one with a building-section suffix, a summary page and pages with no
\* header or with the header on their second line
PageSets ==
    ListsOf({<<"0","1"," ","A","A">>, <<"0","2"," ","B","B">>,
             <<"0","1"," ","A","A"," ","-"," ","A","P","T"," ","1">>,
             <<"0","0"," ","S","U","M","M","A","R","Y">>,
             <<"m","o","r","e">>, <<"x","\n","0","2"," "," ","B","B"," ">>},
            MaxPages) \ {<<>>}

MergeProjectPages ==
    /\ run = NoRun
    /\ files.kind = "pages"
    /\ run' = [op |-> "_merge_project_pages",
               projects |-> _merge_project_pages(files.pages)]
    /\ UNCHANGED <<storeVars, files>>
    /\ UNCHANGED matchVars

\* C28: _merge_project_pages takes the pages in ascending order: each
\* project name is once in the output, with the lowest page that carries
\* its header; a page with no header is appended to the project whose
\* header page most recently preceded it; pages before the first project
\* header are dropped.
C28_ContinuationFollowsItsHeader ==
    run.op = "_merge_project_pages" =>
        LET pages == files.pages
            \* the project name page p carries, <<>> when it carries none
            Carries(p) ==
                IF PROJECT_HEADER(pages[p]).found
                   /\ strip(PROJECT_HEADER(pages[p]).name) # <<"S","U","M","M","A","R","Y">>
                THEN strip(PROJECT_HEADER(pages[p]).name) ELSE <<>>
            HeaderPages == {p \in 1..Len(pages) : Carries(p) # <<>>}
            \* the project page p belongs to
            Owner(p) ==
                IF PROJECT_HEADER(pages[p]).found THEN Carries(p)
                ELSE IF \E q \in HeaderPages : q < p
                THEN Carries(CHOOSE q \in HeaderPages :
                                 q < p /\ \A r \in HeaderPages : r < p => r <= q)
                ELSE <<>>
            RECURSIVE Content(_, _)
            \* the pages of a project from page p on, joined by newlines
            Content(name, p) ==
                IF p > Len(pages) THEN <<>>
                ELSE IF Owner(p) # name THEN Content(name, p + 1)
                ELSE <<"\n">> \o pages[p] \o Content(name, p + 1)
        IN  /\ {run.projects[k].name : k \in 1..Len(run.projects)}
                  = {Carries(p) : p \in HeaderPages}
            /\ \A j, k \in 1..Len(run.projects) :
                  run.projects[j].name = run.projects[k].name => j = k
            /\ \A k \in 1..Len(run.projects) :
                  /\ run.projects[k].page \in HeaderPages
                  /\ Carries(run.projects[k].page) = run.projects[k].name
                  /\ \A q \in HeaderPages :
                        Carries(q) = run.projects[k].name => run.projects[k].page <= q
                  /\ <<"\n">> \o run.projects[k].content
                        = Content(run.projects[k].name, 1)

MaxLines == 4       \* lines of a factor section

\* skip_words of _parse_factor_rows
skip_words ==
    {<<"f","a","c","t","o","r","s">>, <<"r","a","t","e">>,
     <<"r","a","t","e"," ","h","o","h">>, <<"h","o","h">>, <<"(","%",")">>,
     <<"l","o","c","a","t","i","o","n">>, <<"s","u","p","p","l","y">>,
     <<"s","h","o","r","t","a","g","e">>,
     <<"c","o","n","s","t","r","u","c">>, <<"-","t","i","o","n">>,
     <<"u","r","b","a","n">>, <<"p","l","a","n","n","i","n","g">>,
     <<"c","o","m","p","e","t","i","t">>,
     <<"-","i","v","e"," ","p","r","i","c","e">>,
     <<"n","e","i","g","h","b","o","r">>, <<"-","h","o","o","d">>,
     <<"o","t","h","e","r","s">>, <<"d","e","t","a","i","l","s">>,
     <<"o","l","d"," ","p","r","o","j","e","c","t">>,
     <<"l","e","g","a","l">>, <<"b","a","n","k"," ","l","o","a","n">>,
     <<"o","v","e","r">>, <<"m","a","n","a","g","e">>,
     <<"-","m","e","n","t">>, <<"n","/","a">>,
     <<"m","a","r","k","e","t"," ","s","i","t","u","a","t","i","o","n">>}

\* the check mark glyphs: [üûö✓✔]
MarkChars == {"uuml", "ucirc", "ouml", "check", "heavycheck"}

\* ^-?\d+\.?\d*\s*%$ matched from the start of line
IsRate(line) ==
    Ends(CatAll(<<Bol, Opt(Lit(<<"-">>)), Digits1, Opt(Lit(<<".">>)), Star(In(DigitChars)),
                  Star(In(WhiteChars)), Lit(<<"%">>), Eol>>), line, 1, FALSE) # <<>>

\* re.match(r"---\s*Page\s+\d+\s*---", line)
IsPageBreak(line) ==
    Ends(CatAll(<<Lit(<<"-","-","-">>), Star(In(WhiteChars)), Lit(<<"P","a","g","e">>),
                  Plus(In(WhiteChars)), Digits1, Star(In(WhiteChars)),
                  Lit(<<"-","-","-">>)>>), line, 1, FALSE) # <<>>

\* float(rate_match.group(1)), in hundredths: the number before the blanks
\* and the percent sign
float(line) ==
    LET num == SelectSeq(line, LAMBDA c : c \in DigitChars \cup {"-", "."})
        dot == IF \E k \in 1..Len(num) : num[k] = "."
               THEN CHOOSE k \in 1..Len(num) : num[k] = "." ELSE Len(num) + 1
        whole == SelectSeq(SubSeq(num, 1, dot - 1), LAMBDA c : c \in DigitChars)
        frac == SubSeq(SubSeq(num, dot + 1, Len(num)) \o <<"0","0">>, 1, 2)
    IN  (IF num[1] = "-" THEN -1 ELSE 1) * (100 * int(whole) + int(frac))

\* the loop that skips the column header lines (lines 198-209): the line
\* index where the rows start; lines are numbered from 1
RECURSIVE SkipHeader(_, _)
SkipHeader(lines, i) ==
    IF i > Len(lines) THEN i
    ELSE IF strip(lines[i]) = <<>> \/ Lower(strip(lines[i])) \in skip_words
    THEN SkipHeader(lines, i + 1)
    ELSE IF IsRate(strip(lines[i])) \/ strip(lines[i])[1] \in UpperChars \cup DigitChars
    THEN i
    ELSE SkipHeader(lines, i + 1)

\* the loop that collects candidate name lines up to a rate line (lines
\* 238-260): where it stops, the rate line it consumed (0 when rate is
\* None) and candidate_lines
RECURSIVE CollectCandidates(_, _, _)
CollectCandidates(lines, i, candidate_lines) ==
    IF i > Len(lines)
    THEN [i |-> i, rate_line |-> 0, candidate_lines |-> candidate_lines]
    ELSE LET line == strip(lines[i])
         IN  IF line = <<>> \/ line = <<"-">> \/ IsPageBreak(line)
             THEN CollectCandidates(lines, i + 1, candidate_lines)
             ELSE IF IsRate(line)
             THEN [i |-> i + 1, rate_line |-> i, candidate_lines |-> candidate_lines]
             ELSE IF \A k \in 1..Len(line) : line[k] \in MarkChars
             THEN [i |-> i, rate_line |-> 0, candidate_lines |-> candidate_lines]
             ELSE CollectCandidates(lines, i + 1,
                                    IF Lower(line) \notin skip_words
                                    THEN Append(candidate_lines, line)
                                    ELSE candidate_lines)

\* project_lines with every candidate line kept
project_lines_all(candidate_lines) == candidate_lines

\* project_lines (lines 265-283): the last candidate line, and the one
\* before it (prev in the code) when it looks like the start of the name
project_lines(candidate_lines) ==
    LET n == Len(candidate_lines)
        before == candidate_lines[n - 1]
        keywords ==
            {<<"h","a","n","d","o","v","e","r">>,
             <<"d","e","g","r","a","d">>, <<"d","e","l","a","y">>,
             <<"l","e","g","a","l">>, <<"s","u","p","p","l","y">>,
             <<"c","o","n","s","t","r","u","c","t","i","o","n">>,
             <<"n","e","w","l","y">>,
             <<"g","o","o","d"," ","p","r","o","d","u","c","t">>,
             <<"m","a","c","r","o">>, <<"w","h","o","l","e">>,
             <<"n","e","w"," ","p","r","o","j","e","c","t">>,
             <<"l","i","m","i","t","e","d">>}
    IN  IF n = 0 THEN <<>>
        ELSE IF /\ n > 1
                /\ before[1] \in UpperChars
                /\ Len(before) < 40
                /\ \A k \in 1..Len(before) : before[k] \notin {",", ":"}
                /\ \A kw \in keywords : ~Contains(Lower(before), kw)
        THEN SubSeq(candidate_lines, n - 1, n)
        ELSE SubSeq(candidate_lines, n, n)

\* " ".join(strings)
RECURSIVE join(_)
join(strings) ==
    IF strings = <<>> THEN <<>>
    ELSE IF Len(strings) = 1 THEN strings[1]
    ELSE strings[1] \o <<" ">> \o join(Tail(strings))

\* re.sub(r"\s+", " ", " ".join(project_lines).strip())
ProjectName(lines) == Sub(Plus(In(WhiteChars)), <<" ">>, strip(join(lines)), FALSE)

\* the filter of lines 296-299: an intro paragraph taken for a name
IsIntro(project_name) ==
    \/ Len(project_name) > 60
    \/ Contains(project_name, <<"C","o","m","p","a","r","e","d"," ","t","o">>)
    \/ Contains(Lower(project_name), <<"s","e","c","o","n","d","a","r","y"," ","p","r","i","c","e">>)
    \/ Contains(project_name, <<"M","a","i","n"," ","f","a","c","t","o","r","s">>)

\* the loop that collects check marks and description (lines 305-341)
RECURSIVE CollectChecks(_, _, _, _)
CollectChecks(lines, i, checks, desc_lines) ==
    IF i > Len(lines) THEN [i |-> i, checks |-> checks, desc_lines |-> desc_lines]
    ELSE LET line == strip(lines[i])
             keywords ==
                 {<<"w","h","o","l","e">>,
                  <<"n","e","w"," ","p","r","o","j","e","c","t">>,
                  <<"l","i","m","i","t","e","d">>,
                  <<"h","i","g","h"," ","r","e","n","t","a","l">>,
                  <<"u","r","b","a","n">>, <<"m","a","c","r","o">>,
                  <<"n","e","w","l","y">>, <<"s","u","p","p","l","y">>,
                  <<"d","e","v","e","l","o","p","e","r">>,
                  <<"h","a","n","d","o","v","e","r">>,
                  <<"d","e","g","r","a","d","e","d">>, <<"l","a","t","e">>,
                  <<"l","e","g","a","l">>,
                  <<"c","o","n","s","t","r","u","c","t","i","o","n">>,
                  <<"d","e","l","a","y","i","n","g">>,
                  <<"c","o","m","p","e","t","i","t","i","v","e">>}
             \* ^[A-Z][A-Za-z0-9\s\-–&'.()]+$
             NameLike ==
                 /\ Len(line) > 3
                 /\ line[1] \in UpperChars
                 /\ \A k \in 2..Len(line) :
                       line[k] \in UpperChars \cup LowerChars \cup DigitChars
                                   \cup WhiteChars \cup {"-", "endash", "&", "'", ".", "(", ")"}
                 /\ \A kw \in keywords : ~Contains(Lower(line), kw)
             \* the next line that is not blank
             Later == {j \in (i + 1)..Len(lines) : strip(lines[j]) # <<>>}
             next_i == CHOOSE j \in Later : \A k \in Later : j <= k
         IN  IF line = <<>> \/ IsPageBreak(line)
             THEN CollectChecks(lines, i + 1, checks, desc_lines)
             ELSE IF \A k \in 1..Len(line) : line[k] \in MarkChars \cup {"N", "/", "A"}
             THEN CollectChecks(lines, i + 1, Append(checks, line), desc_lines)
             ELSE IF IsRate(line)
             THEN [i |-> i, checks |-> checks, desc_lines |-> desc_lines]
             ELSE IF NameLike /\ Later # {} /\ IsRate(strip(lines[next_i]))
             THEN [i |-> i, checks |-> checks, desc_lines |-> desc_lines]
             ELSE CollectChecks(lines, i + 1, checks, Append(desc_lines, line))
\* what lines 289-351 do once a name and a rate were found: the row is
\* dropped when the name is an intro paragraph, and otherwise appended with
\* its check marks and description; a row keeps, besides its four fields,
\* the number of its rate line and the candidate_lines it was named from
EmitRow(lines, c, rows) ==
    LET project_name == ProjectName(project_lines(c.candidate_lines))
        d == CollectChecks(lines, c.i, <<>>, <<>>)
    IN  IF IsIntro(project_name) THEN [i |-> c.i, rows |-> rows]
        ELSE [i |-> d.i,
              rows |-> Append(rows,
                              [project_name |-> project_name,
                               rate |-> float(strip(lines[c.rate_line])),
                               checks_text |-> join(d.checks),
                               description |-> strip(join(d.desc_lines)),
                               rate_line |-> c.rate_line,
                               candidate_lines |-> c.candidate_lines])]

\* an iteration that goes on without i += 1 when no name or no rate was found
ParseStepStuck(lines, i, rows) ==
    LET line == strip(lines[i])
        c == CollectCandidates(lines, i, <<>>)
    IN  IF line = <<>> \/ Lower(line) \in skip_words \/ line = <<"-">> \/ IsPageBreak(line)
        THEN [i |-> i + 1, rows |-> rows]
        ELSE IF project_lines(c.candidate_lines) = <<>> \/ c.rate_line = 0
        THEN [i |-> c.i, rows |-> rows]
        ELSE EmitRow(lines, c, rows)

\* one iteration of the outer loop of _parse_factor_rows (lines 212-351),
\* entered with i <= Len(lines): the new i and rows
ParseStep(lines, i, rows) ==
    LET line == strip(lines[i])
        c == CollectCandidates(lines, i, <<>>)
    IN  IF line = <<>> \/ Lower(line) \in skip_words \/ line = <<"-">> \/ IsPageBreak(line)
        THEN [i |-> i + 1, rows |-> rows]
        ELSE IF project_lines(c.candidate_lines) = <<>> \/ c.rate_line = 0
        THEN [i |-> c.i + 1, rows |-> rows]
        ELSE EmitRow(lines, c, rows)

INCREASE_FACTOR_COLS ==
    <<"location", "supply_shortage", "construction", "urban_planning",
      "competitive_price", "neighborhood", "other">>

DECREASE_FACTOR_COLS ==
    <<"old_project", "legal", "bank_loan", "oversupply", "management", "other">>

\* keyword_map of _infer_factors_from_description; each keyword is a pattern
keyword_map ==
    [col \in {"location", "supply_shortage", "construction", "urban_planning", "competitive_price", "neighborhood", "old_project", "legal", "bank_loan", "oversupply", "management"} |->
     CASE col = "location" ->
            <<Lit(<<"l","o","c","a","t","i","o","n">>),
              Lit(<<"m","e","t","r","o">>),
              Lit(<<"c","b","d">>),
              Lit(<<"r","i","v","e","r","s","i","d","e">>),
              Lit(<<"n","e","a","r">>)>>
       [] col = "supply_shortage" ->
            <<Lit(<<"s","u","p","p","l","y"," ","s","h","o","r","t","a","g","e">>),
              Lit(<<"s","h","o","r","t","a","g","e">>),
              Lit(<<"n","o","t"," ","m","a","n","y">>),
              Lit(<<"f","e","w">>)>>
       [] col = "construction" ->
            <<Lit(<<"c","o","n","s","t","r","u","c","t","i","o","n">>),
              Lit(<<"b","r","i","d","g","e">>),
              Lit(<<"r","o","a","d">>),
              Lit(<<"i","n","f","r","a","s","t","r","u","c","t","u","r","e">>)>>
       [] col = "urban_planning" ->
            <<Lit(<<"p","l","a","n","n","i","n","g">>),
              Lit(<<"u","r","b","a","n">>),
              Lit(<<"m","a","s","t","e","r"," ","p","l","a","n">>)>>
       [] col = "competitive_price" ->
            <<Lit(<<"c","o","m","p","e","t","i","t","i","v","e">>),
              Lit(<<"p","r","i","c","e">>),
              Lit(<<"c","h","e","a","p","e","r">>),
              Lit(<<"a","f","f","o","r","d","a","b","l","e">>)>>
       [] col = "neighborhood" ->
            <<Lit(<<"n","e","i","g","h","b","o","r","h","o","o","d">>),
              Lit(<<"f","a","c","i","l","i","t","i","e","s">>),
              Lit(<<"a","m","e","n","i","t","i","e","s">>),
              Lit(<<"p","a","r","k">>)>>
       [] col = "old_project" ->
            <<Lit(<<"o","l","d">>),
              CatAll(<<Lit(<<"h","a","n","d","o","v","e","r">>), Star(NotIn({"\n"})), Lit(<<"y","e","a","r">>)>>),
              Lit(<<"d","e","g","r","a","d","e","d">>)>>
       [] col = "legal" ->
            <<Lit(<<"l","e","g","a","l">>),
              Lit(<<"p","i","n","k"," ","b","o","o","k">>),
              Lit(<<"l","i","c","e","n","s","e">>)>>
       [] col = "bank_loan" ->
            <<Lit(<<"b","a","n","k">>),
              Lit(<<"l","o","a","n">>),
              Lit(<<"i","n","t","e","r","e","s","t">>)>>
       [] col = "oversupply" ->
            <<Lit(<<"o","v","e","r","s","u","p","p","l","y">>),
              Lit(<<"o","v","e","r"," ","s","u","p","p","l","y">>)>>
       [] col = "management" ->
            <<Lit(<<"m","a","n","a","g","e","m","e","n","t">>),
              Lit(<<"o","p","e","r","a","t","i","o","n">>),
              Lit(<<"m","a","i","n","t","a","i","n">>)>>]

\* PricePassExtractor._infer_factors_from_description
_infer_factors_from_description(text, columns) ==
    SelectSeq(columns,
              LAMBDA col :
                  /\ col \in DOMAIN keyword_map
                  /\ \E k \in 1..Len(keyword_map[col]) :
                        \E i \in 1..(Len(text) + 1) :
                            Ends(keyword_map[col][k], Lower(text), i, FALSE) # <<>>)

\* PricePassExtractor._detect_checked_factors
_detect_checked_factors(checks_text, columns) ==
    LET check_marks == SelectSeq(checks_text, LAMBDA c : c \in MarkChars)
        inferred == _infer_factors_from_description(checks_text, columns)
    IN  IF check_marks = <<>> THEN inferred
        ELSE IF Len(check_marks) = 1
        THEN (IF inferred # <<>> THEN inferred ELSE <<columns[1]>>)
        ELSE SubSeq(columns, 1, IF Len(check_marks) < Len(columns)
                                THEN Len(check_marks) ELSE Len(columns))

\* the loop of _extract_factors over the parsed rows (lines 154-168): one
\* record for each checked column of each row; row is the number of the
\* row a record was made from
_extract_factors(parsed, factor_type) ==
    LET factor_cols == IF factor_type = "increase" THEN INCREASE_FACTOR_COLS
                       ELSE DECREASE_FACTOR_COLS
        RECURSIVE Records(_)
        Records(k) ==
            IF k > Len(parsed) THEN <<>>
            ELSE LET checked == _detect_checked_factors(parsed[k].checks_text,
                                                        factor_cols)
                 IN  [j \in 1..Len(checked) |->
                         [project_name |-> parsed[k].project_name,
                          factor_type |-> factor_type,
                          factor_category |-> checked[j],
                          rate_pct |-> parsed[k].rate,
                          description |-> parsed[k].description,
                          row |-> k]]
                     \o Records(k + 1)
    IN  Records(1)

\* the lines of a factor section: a blank line, a column header, two name
\* lines, a rate, a check mark, a description, an intro sentence, a page
\* break and a line that starts a description with a capital
SectionLines ==
    ListsOf({<<" ">>, <<"R","a","t","e">>, <<"A"," "," ","B">>,
             <<"C","c">>, <<"5",".","5"," ","%">>, <<"uuml">>,
             <<"n","e","w"," ","b","r","i","d","g","e">>,
             <<"C","o","m","p","a","r","e","d"," ","t","o"," ","x">>,
             <<"-","-","-"," ","P","a","g","e"," ","1"," ","-","-","-">>,
             <<"L","e","g","a","l"," ","a">>},
            MaxLines) \ {<<>>}

\* _parse_factor_rows(section_text) up to its outer loop
CallParseFactorRows ==
    /\ run = NoRun
    /\ files.kind = "section"
    /\ run' = [op |-> "_parse_factor_rows", i |-> SkipHeader(files.lines, 1),
               rows |-> <<>>, done |-> SkipHeader(files.lines, 1) > Len(files.lines),
               steps |-> 0]
    /\ UNCHANGED <<storeVars, files>>
    /\ UNCHANGED matchVars

\* one iteration of the outer loop; the loop is left, and rows returned,
\* when i has passed the last line.  steps counts the iterations, and is
\* followed no further than one past the number of lines
ParseFactorRowsStep ==
    /\ run.op = "_parse_factor_rows"
    /\ ~run.done
    /\ run.steps <= Len(files.lines)
    /\ run' = [op |-> "_parse_factor_rows",
               i |-> ParseStep(files.lines, run.i, run.rows).i,
               rows |-> ParseStep(files.lines, run.i, run.rows).rows,
               done |-> ParseStep(files.lines, run.i, run.rows).i > Len(files.lines),
               steps |-> run.steps + 1]
    /\ UNCHANGED <<storeVars, files>>
    /\ UNCHANGED matchVars

\* the records _extract_factors makes of the rows of a section
ExtractFactors(factor_type) ==
    /\ run.op = "_parse_factor_rows"
    /\ run.done
    /\ run' = [op |-> "_extract_factors", factor_type |-> factor_type,
               parsed |-> run.rows,
               factors |-> _extract_factors(run.rows, factor_type)]
    /\ UNCHANGED <<storeVars, files>>
    /\ UNCHANGED matchVars

MaxSegLines == 5    \* lines of a segment section

\* city_names_map of _extract_segments, in the order of its keys
city_names_map ==
    <<[key |-> <<"H","C","M","C">>, city_name |-> "Ho Chi Minh City"],
      [key |-> <<"H","O"," ","C","H","I"," ","M","I","N","H">>, city_name |-> "Ho Chi Minh City"],
      [key |-> <<"B","I","N","H"," ","D","U","O","N","G">>, city_name |-> "Binh Duong"],
      [key |-> <<"H","A"," ","L","O","N","G">>, city_name |-> "Ha Long"],
      [key |-> <<"H","A","I"," ","P","H","O","N","G">>, city_name |-> "Hai Phong"],
      [key |-> <<"D","A"," ","N","A","N","G">>, city_name |-> "Da Nang"],
      [key |-> <<"H","A","N","O","I">>, city_name |-> "Hanoi"]>>

\* ^(\d+)\s*%$ matched from the start of line
IsPct(line) ==
    Ends(CatAll(<<Bol, Digits1, Star(In(WhiteChars)), Lit(<<"%">>), Eol>>),
         line, 1, FALSE) # <<>>

\* ^(In |HCMC|Source|01\.) matched from the start of line
IsCommentary(line) ==
    Ends(AltAll(<<Lit(<<"I","n"," ">>), Lit(<<"H","C","M","C">>),
                  Lit(<<"S","o","u","r","c","e">>), Lit(<<"0","1",".">>)>>),
         line, 1, FALSE) # <<>>

\* the per-city part of PricePassExtractor._extract_segments (lines
\* 575-637) on the stripped, non-empty lines of the section.  An Optional
\* float is <<>> for None and <<v>> for the value v
_extract_segments(lines) ==
    LET segment_order == <<"affordable", "mid-end", "high-end", "luxury">>
        upper(s) == [k \in 1..Len(s) |->
                        IF s[k] \in LowerChars
                        THEN UpperSeq[CHOOSE n \in 1..26 : LowerSeq[n] = s[k]]
                        ELSE s[k]]
        Matches(key, line_upper) ==
            \/ key = line_upper
            \/ Contains(line_upper, key) /\ Len(line_upper) < Len(key) + 5
        matched_city(line) ==
            LET hits == {n \in 1..Len(city_names_map) :
                            Matches(city_names_map[n].key, strip(upper(line)))}
            IN  IF hits = {} THEN ""
                ELSE city_names_map[CHOOSE n \in hits : \A h \in hits : n <= h].city_name
        RECURSIVE Collect(_, _)
        \* the loop over lines from line k on
        Collect(st, k) ==
            IF k > Len(lines) THEN st
            ELSE IF strip(upper(lines[k])) = <<>> THEN Collect(st, k + 1)
            ELSE IF matched_city(lines[k]) # "" /\ ~st.past_cities
            THEN Collect([st EXCEPT !.city_order = Append(@, matched_city(lines[k]))],
                         k + 1)
            ELSE IF IsPct(lines[k])
            THEN Collect([st EXCEPT !.past_cities = TRUE,
                                    !.all_pcts = Append(@, <<int(SelectSeq(lines[k],
                                                   LAMBDA c : c \in DigitChars))>>)],
                         k + 1)
            ELSE IF strip(lines[k]) = <<"-">>
            THEN Collect([st EXCEPT !.past_cities = TRUE, !.all_pcts = Append(@, <<>>)],
                         k + 1)
            ELSE IF st.past_cities /\ IsCommentary(lines[k]) THEN st
            ELSE Collect(st, k + 1)
        got == Collect([city_order |-> <<>>, all_pcts |-> <<>>, past_cities |-> FALSE], 1)
        all_pcts == got.all_pcts
        RECURSIVE Assign(_, _)
        \* the loop over city_order from city number c on, idx values taken
        Assign(c, idx) ==
            IF c > Len(got.city_order) \/ idx + 3 > Len(all_pcts) THEN <<>>
            ELSE [j \in 1..4 |->
                     [city |-> got.city_order[c], position |-> c,
                      segment |-> segment_order[j],
                      proportion_pct |->
                          \* if pct is None: pct = 0.0
                          IF idx + j > Len(all_pcts) \/ all_pcts[idx + j] = <<>>
                          THEN <<0>> ELSE all_pcts[idx + j]]]
                 \o Assign(c + 1, IF idx + 4 < Len(all_pcts) THEN idx + 4
                                  ELSE Len(all_pcts))
    IN  IF got.city_order # <<>> /\ all_pcts # <<>> THEN Assign(1, 0) ELSE <<>>

\* the lines of a segment section: two city names, percentages, a dash and
\* a commentary line
SegmentLines ==
    ListsOf({<<"H","C","M","C">>, <<"H","a","n","o","i">>, <<"5","%">>,
             <<"0","%">>, <<"-">>, <<"I","n"," ","x">>},
            MaxSegLines) \ {<<>>}

ExtractSegments ==
    /\ run = NoRun
    /\ files.kind = "segments"
    /\ run' = [op |-> "_extract_segments", summaries |-> _extract_segments(files.lines)]
    /\ UNCHANGED <<storeVars, files>>
    /\ UNCHANGED matchVars

\* what one call of an extractor function is given
ExtractInputs ==
    {[kind |-> "sources", src |-> s] : s \in SourceFiles}
    \cup {[kind |-> "text", text |-> t] : t \in PageTexts}
    \cup {[kind |-> "pages", pages |-> p] : p \in PageSets}
    \cup {[kind |-> "section", lines |-> l] : l \in SectionLines}
    \cup {[kind |-> "segments", lines |-> l] : l \in SegmentLines}

ExtractInit ==
    /\ store = EmptyDb
    /\ txn = [w \in Workers |-> NoTxn]
    /\ pend = [w \in Workers |-> <<>>]
    /\ broken = [w \in Workers |-> FALSE]
    /\ last = [w \in Workers |-> NoCall]
    /\ prev = [w \in Workers |-> Earlier(NoCall)]
    /\ calls = [w \in Workers |-> 0]
    /\ pc = [w \in Workers |-> "idle"]
    /\ loc = [w \in Workers |-> NoLocals]
    /\ NoMatching
    /\ files \in ExtractInputs
    /\ run = NoRun

ExtractNext ==
    \/ RunExtractors
    \/ SplitByPages
    \/ MergeProjectPages
    \/ CallParseFactorRows
    \/ ParseFactorRowsStep
    \/ \E factor_type \in {"increase", "decrease"} : ExtractFactors(factor_type)
    \/ ExtractSegments

SpecExtract == ExtractInit /\ [][ExtractNext]_vars

\* C25: the check marks of a parsed factor row are mapped to the columns of
\* its factor type in order; a row with no or one check mark has its
\* categories inferred by keyword from its description instead.
C25_FactorsFromMarksOrDescription ==
    run.op = "_extract_factors" =>
        \A k \in 1..Len(run.parsed) :
            LET columns == IF run.factor_type = "increase" THEN INCREASE_FACTOR_COLS
                           ELSE DECREASE_FACTOR_COLS
                marks == Len(SelectSeq(run.parsed[k].checks_text,
                                       LAMBDA c : c \in MarkChars))
                records == SelectSeq(run.factors, LAMBDA f : f.row = k)
                categories == [j \in 1..Len(records) |-> records[j].factor_category]
                described == _infer_factors_from_description(run.parsed[k].description,
                                                             columns)
            IN  /\ marks >= 2 =>
                      categories = SubSeq(columns, 1, IF marks < Len(columns) THEN marks
                                                      ELSE Len(columns))
                /\ (marks <= 1 /\ described # <<>>) => categories = described

\* C26: in the segment table a "-" cell is kept as a missing value that the
\* record distinguishes from a 0 percentage, and values go to cities by
\* position: the i-th city met receives the i-th group of four cells, in
\* segment order.
C26_DashIsMissingNotZero ==
    run.op = "_extract_segments" =>
        LET lines == files.lines
            IsCell(k) == IsPct(lines[k]) \/ lines[k] = <<"-">>
            \* the table ends before the first commentary line below a cell
            ends == {k \in 1..Len(lines) :
                        IsCommentary(lines[k]) /\ \E c \in 1..(k - 1) : IsCell(c)}
            bottom == IF ends = {} THEN Len(lines)
                    ELSE (CHOOSE k \in ends : \A e \in ends : k <= e) - 1
            \* the cells of the table: its percentage and dash lines, in order
            cells == SelectSeq(SubSeq(lines, 1, bottom),
                               LAMBDA l : IsPct(l) \/ l = <<"-">>)
            segments == <<"affordable", "mid-end", "high-end", "luxury">>
        IN  \A r \in 1..Len(run.summaries) :
                LET rec == run.summaries[r]
                    j == CHOOSE j \in 1..4 : segments[j] = rec.segment
                    n == (rec.position - 1) * 4 + j
                IN  n <= Len(cells) =>
                        rec.proportion_pct =
                            IF cells[n] = <<"-">> THEN <<>>
                            ELSE <<int(SelectSeq(cells[n], LAMBDA c : c \in DigitChars))>>

\* C27: a row emitted by _parse_factor_rows has the rate of a rate line and
\* a project_name joined from the last one or two candidate lines
\* accumulated before that rate line, never an earlier one; no emitted name
\* is longer than 60 characters or contains "Compared to", "secondary
\* price" or "Main factors".
C27_NameIsLastCandidateLines ==
    run.op = "_parse_factor_rows" =>
        \A k \in 1..Len(run.rows) :
            LET row == run.rows[k]
                n == Len(row.candidate_lines)
            IN  /\ row.rate_line \in 1..Len(files.lines)
                /\ IsRate(strip(files.lines[row.rate_line]))
                /\ row.rate = float(strip(files.lines[row.rate_line]))
                /\ n >= 1
                /\ \A m \in 1..n :
                      \E j \in 1..(row.rate_line - 1) :
                          strip(files.lines[j]) = row.candidate_lines[m]
                /\ \/ row.project_name = ProjectName(SubSeq(row.candidate_lines, n, n))
                   \/ n >= 2 /\ row.project_name
                                  = ProjectName(SubSeq(row.candidate_lines, n - 1, n))
                /\ Len(row.project_name) <= 60
                /\ ~Contains(row.project_name, <<"C","o","m","p","a","r","e","d"," ","t","o">>)
                /\ ~Contains(row.project_name, <<"s","e","c","o","n","d","a","r","y"," ","p","r","i","c","e">>)
                /\ ~Contains(row.project_name, <<"M","a","i","n"," ","f","a","c","t","o","r","s">>)

\* a row named from the last two of three candidate lines
C27_Witness ==
    /\ run.op = "_parse_factor_rows"
    /\ \E k \in 1..Len(run.rows) :
          /\ Len(run.rows[k].candidate_lines) = 3
          /\ run.rows[k].project_name = ProjectName(SubSeq(run.rows[k].candidate_lines, 2, 3))
          /\ run.rows[k].project_name # ProjectName(run.rows[k].candidate_lines)

\* C29: _parse_factor_rows terminates: every iteration of its outer loop
\* moves the line index forward by at least one, so the loop makes no more
\* iterations than the input has lines, and the rows emitted are never
\* more than the rate lines of the input.
C29_ParserTerminates ==
    /\ [][(run.op = "_parse_factor_rows" /\ run'.op = "_parse_factor_rows")
            => run'.i >= run.i + 1]_vars
    /\ [](run.op = "_parse_factor_rows" =>
            /\ run.steps <= Len(files.lines)
            /\ run.steps = Len(files.lines) => run.done
            /\ Len(run.rows) <= Cardinality({j \in 1..Len(files.lines) :
                                                IsRate(strip(files.lines[j]))}))

\* the loop was left after a check mark met before any rate and a row emitted
C29_Witness ==
    /\ run.op = "_parse_factor_rows"
    /\ run.done
    /\ Len(run.rows) = 1
    /\ \A k \in 1..Len(strip(files.lines[1])) : strip(files.lines[1])[k] \in MarkChars
    /\ strip(files.lines[1]) # <<>>


\* C21: when an extractor fails in run_extractors (source file absent, or
\* any other exception out of extract), it is skipped: run_extractors
\* returns, with the record counts of the extractors that did not fail.
C21_FailingExtractorSkipped ==
    run.op = "run_extractors" =>
        /\ run.raised = "none"
        /\ run.results =
              SelectSeq([k \in 1..Len(Extractors) |->
                            [name |-> Extractors[k],
                             count |-> Extract(Extractors[k],
                                               files.src[Extractors[k]]).count]],
                        LAMBDA e : Extract(e.name, files.src[e.name]).raised = "none")

\* the lines of a text: text.split("\n")
RECURSIVE Lines(_)
Lines(text) ==
    IF \A k \in 1..Len(text) : text[k] # "\n" THEN <<text>>
    ELSE LET k == CHOOSE k \in 1..Len(text) :
                      text[k] = "\n" /\ \A j \in 1..(k - 1) : text[j] # "\n"
         IN  <<SubSeq(text, 1, k - 1)>> \o Lines(SubSeq(text, k + 1, Len(text)))

\* a page-marker line: --- Page N ---
IsMarkerLine(line) ==
    Ends(CatAll(<<Bol, Lit(<<"-","-","-">>), Ws, Lit(<<"P","a","g","e">>), Ws1,
                  Digits1, Ws, Lit(<<"-","-","-">>), Eol>>), line, 1, FALSE) # <<>>

\* the lines from line k on, up to the next marker line, joined again
RECURSIVE PageText(_, _)
PageText(lines, k) ==
    IF k > Len(lines) \/ IsMarkerLine(lines[k]) THEN <<>>
    ELSE lines[k] \o <<"\n">> \o PageText(lines, k + 1)

\* C24: split_by_pages returns one entry per page-marker line: its key is
\* the marker's number, its value the trimmed text between that marker and
\* the next one or the end, and no value holds a marker line; the text
\* before the first marker is in no page.
C24_OneEntryPerMarker ==
    run.op = "split_by_pages" =>
        LET lines == Lines(files.text)
            markers == {k \in 1..Len(lines) : IsMarkerLine(lines[k])}
            number(k) == int(SelectSeq(lines[k], LAMBDA c : c \in DigitChars))
        IN  /\ Cardinality(DOMAIN run.pages) = Cardinality(markers)
            /\ \A k \in markers :
                  /\ number(k) \in DOMAIN run.pages
                  /\ run.pages[number(k)] = strip(PageText(lines, k + 1))
            /\ \A n \in DOMAIN run.pages :
                  \A j \in 1..Len(Lines(run.pages[n])) :
                      ~IsMarkerLine(Lines(run.pages[n])[j])

===========================================================================
